---- MODULE Spec2Model ----
(***************************************************************************)
(* Model of ParNCSubMesh::ParNCSubMesh (mesh/submesh/pncsubmesh.cpp): the  *)
(* construction of a non-conforming submesh from the elements (Domain) or  *)
(* from the boundary faces (Boundary) of a parent non-conforming mesh.     *)
(*                                                                         *)
(* The parent mesh is an input.  It is drawn from a bounded family of      *)
(* bisection forests: a chain of root segments on a dyadic grid, each      *)
(* refined into two children any number of times.  In Domain mode the      *)
(* forest is the element tree of a 1D parent mesh; in Boundary mode it is  *)
(* the tree of boundary faces of a 2D parent mesh, whose faces are the     *)
(* degenerate 4-node tuples (a, a, b, b).                                  *)
(***************************************************************************)
EXTENDS Integers, Sequences, FiniteSets, TLC

\* ------------------------------------------------------------------ bounds
\* Largest number of leaves (leaf elements / leaf faces) of a parent forest.
MaxFaces == 3
\* Largest number of root segments of a parent forest.
NumRoots == 2
\* Largest root-element count a peer rank contributes to the all-reduce.
MaxPeerRoots == 2
\* Number of peer ranks taking part in the all-reduce besides this one.
NumPeers == 1

\* ------------------------------------------------------------- arithmetic
SetMin(S) == CHOOSE x \in S : \A y \in S : x <= y
SetMax(S) == CHOOSE x \in S : \A y \in S : y <= x
MinInt(a, b) == IF a < b THEN a ELSE b
\* std::numeric_limits<int>::max()
IntMax == 2147483647

\* The elements of S in increasing order (iteration order of std::set<int>).
RECURSIVE SortedSeq(_)
SortedSeq(S) ==
  IF S = {} THEN <<>> ELSE LET m == SetMin(S) IN <<m>> \o SortedSeq(S \ {m})

\* t sorted increasingly (std::sort of a std::array<int, 4>).
RECURSIVE InsertSorted(_, _)
InsertSorted(x, s) ==
  IF s = <<>> THEN <<x>>
  ELSE IF x <= Head(s) THEN <<x>> \o s
  ELSE <<Head(s)>> \o InsertSorted(x, Tail(s))

RECURSIVE SortTuple(_)
SortTuple(t) ==
  IF t = <<>> THEN <<>>
  ELSE CHOOSE r \in {InsertSorted(Head(t), s) : s \in {SortTuple(Tail(t))}} : TRUE

\* The function f with every value computed, as an explicit sequence or an
\* explicit function.
AsSeq(f) == f \o <<>>
AsFcn(f) == f @@ <<>>

\* std::lexicographical_compare(a.begin(), a.end(), b.begin(), b.end())
RECURSIVE LexLess(_, _)
LexLess(a, b) ==
  IF b = <<>> THEN FALSE
  ELSE IF a = <<>> THEN TRUE
  ELSE IF Head(a) < Head(b) THEN TRUE
  ELSE IF Head(b) < Head(a) THEN FALSE
  ELSE LexLess(Tail(a), Tail(b))

\* ---------------------------------------------------- the parent forest
\* Grid points per root segment: a leaf is at most MaxFaces - 1 levels deep
\* and its mid-edge node needs one level more.
Res == 2^MaxFaces
Span == NumRoots * Res + 1

Mid(I) == (I[1] + I[2]) \div 2
Kids(I) == <<(<<I[1], Mid(I)>>), (<<Mid(I), I[2]>>)>>
RootIntervals(n) == {<<k * Res, (k + 1) * Res>> : k \in 0..(n - 1)}
AllIntervals(sh) ==
  RootIntervals(sh.nroots) \cup UNION {{Kids(I)[1], Kids(I)[2]} : I \in sh.refined}
LeafIntervals(sh) == AllIntervals(sh) \ sh.refined

\* The sets of refined intervals reachable by at most k bisections of a leaf.
RECURSIVE Refinements(_, _)
Refinements(n, k) ==
  IF k = 0 THEN {{}}
  ELSE LET P == Refinements(n, k - 1) IN
       P \cup UNION {{R \cup {I} : I \in LeafIntervals([nroots |-> n, refined |-> R])}
                     : R \in P}

Shapes ==
  UNION {{[nroots |-> n, refined |-> R] : R \in Refinements(n, MaxFaces - n)}
         : n \in 1..NumRoots}

\* Width of the interval whose midpoint x is (Res for a top-level vertex).
LowBit(x) ==
  IF x % Res = 0 THEN Res
  ELSE CHOOSE t \in {2^e : e \in 0..MaxFaces} : x % t = 0 /\ x % (2 * t) # 0

\* Top-level vertices come first in the node numbering, then the mid-edge
\* nodes in the order of the refinement level that created them.
NodeKey(x) == (Res - LowBit(x)) * Span + x
NodeCoords(sh) == UNION {{I[1], I[2], Mid(I)} : I \in AllIntervals(sh)}

\* Roots first, then the children level by level, siblings adjacent.
ElemKey(I) == (Res - (I[2] - I[1])) * Span + I[1]

\* The position of x in S by increasing key.
RankIn(S, key(_), x) == Cardinality({y \in S : key(y) < key(x)})

\* The numbering of a shape: its intervals, the leaves from left to right
\* (from 1), the node id of every grid point in use and the element id of
\* every interval.
ShapeData(sh) ==
  LET ivs == AllIntervals(sh)
      crd == NodeCoords(sh)
      lvs == LeafIntervals(sh)
      lo == SortedSeq({I[1] : I \in lvs})
  IN [nroots |-> sh.nroots,
      refined |-> sh.refined,
      intervals |-> ivs,
      leaves |-> AsSeq([j \in 1..Len(lo) |-> CHOOSE I \in lvs : I[1] = lo[j]]),
      node_id |-> AsFcn([x \in crd |-> RankIn(crd, NodeKey, x)]),
      elem_id |-> AsFcn([I \in ivs |-> RankIn(ivs, ElemKey, I)])]

NodeIdOf(sd, x) == sd.node_id[x]
CoordOf(sd, id) == CHOOSE x \in DOMAIN sd.node_id : sd.node_id[x] = id
ElemIdOf(sd, I) == sd.elem_id[I]
IntervalOf(sd, e) == CHOOSE I \in sd.intervals : sd.elem_id[I] = e
ParentInterval(sd, I) ==
  IF I \in RootIntervals(sd.nroots) THEN <<>>
  ELSE CHOOSE J \in sd.refined : I \in {Kids(J)[1], Kids(J)[2]}

\* parent.nodes: node id -> (p1, p2); a top-level node has p1 = p2 = id.
ParentNodes(sd) ==
  [id \in 0..(Cardinality(DOMAIN sd.node_id) - 1) |->
     LET x == CoordOf(sd, id) IN
     IF x % Res = 0 THEN [p1 |-> id, p2 |-> id]
     ELSE LET a == NodeIdOf(sd, x - LowBit(x))
              b == NodeIdOf(sd, x + LowBit(x))
          IN [p1 |-> MinInt(a, b), p2 |-> IF a < b THEN b ELSE a]]

\* parent.coordinates: three entries per top-level node; node k lies at the
\* grid point k * Res.
SegmentCoordinates(sd) ==
  AsSeq([c \in 1..(3 * (sd.nroots + 1)) |->
           IF c % 3 = 1 THEN ((c - 1) \div 3) * Res ELSE 0])

\* ------------------------------------------------- geometry and elements
\* GI[geom]: vertex count and edges (pairs of local node indices, from 0).
GI ==
  [SEGMENT  |-> [nv |-> 2, ne |-> 1, edges |-> <<(<<0, 1>>)>>],
   TRIANGLE |-> [nv |-> 3, ne |-> 3, edges |-> <<(<<0, 1>>), (<<1, 2>>), (<<2, 0>>)>>],
   SQUARE   |-> [nv |-> 4, ne |-> 4,
                 edges |-> <<(<<0, 1>>), (<<1, 2>>), (<<2, 3>>), (<<3, 0>>)>>]]

\* Refinement::X and the child count of each refinement type in use.
RefX == 1
RefXY == 3
ref_type_num_children == [r \in {RefX, RefXY} |-> IF r = RefX THEN 2 ELSE 4]

\* The slots of the node/child union of an element that the construction
\* reads or writes (the slots above them keep the -1 of the constructor).
NoNodes == <<-1, -1, -1, -1>>

\* NCMesh::Element(geom, attr): a leaf without parent, all nodes -1, rank 0.
\* The field "node" is the union { node[], child[] } of the source.
NewElement(geom, attr) ==
  [geom |-> geom, ref_type |-> 0, rank |-> 0, attribute |-> attr,
   parent |-> -1, node |-> NoNodes]

IsLeaf(el) == el.ref_type = 0
\* el.node[n] and el.child[c], n and c counted from 0.
NodeAt(el, n) == el.node[n + 1]
ChildAt(el, c) == el.node[c + 1]
\* elements[e], e counted from 0.
El(es, e) == es[e + 1]

\* HasAttribute(el, attributes): the attribute is one of the requested ones.
HasAttribute(x, attrs) == x.attribute \in attrs

\* parent.nodes.FindId(a, b): the node whose parents are a and b, or -1.
NodesFindId(nodes, a, b) ==
  LET lo == MinInt(a, b)
      hi == IF a < b THEN b ELSE a
      hit == {n \in DOMAIN nodes : nodes[n].p1 = lo /\ nodes[n].p2 = hi}
  IN IF hit = {} THEN -1 ELSE CHOOSE n \in hit : TRUE

\* ----------------------------------------------------- parent meshes
\* The attribute filter of the extraction; what is left out has attribute 2.
attributes == {1}

\* Rank of the (volume) element number e of the parent mesh: 1, 3, 2, 1, ...
\* (none is the rank 0 of a freshly constructed element).
ElemRank(e) == 1 + ((2 * e) % 3)

\* Domain mode: the forest is the element tree of a 1D mesh.  Element un
\* (none if un = -1) carries an attribute outside the filter.
DomainElement(sd, e, un) ==
  LET I == IntervalOf(sd, e)
      up == ParentInterval(sd, I)
  IN [geom |-> "SEGMENT",
      ref_type |-> IF I \in sd.refined THEN RefX ELSE 0,
      rank |-> ElemRank(e),
      attribute |-> IF e = un THEN 2 ELSE 1,
      parent |-> IF up = <<>> THEN -1 ELSE ElemIdOf(sd, up),
      node |-> IF I \in sd.refined
               THEN <<ElemIdOf(sd, Kids(I)[1]), ElemIdOf(sd, Kids(I)[2]), -1, -1>>
               ELSE <<NodeIdOf(sd, I[1]), NodeIdOf(sd, I[2]), -1, -1>>]

DomainMesh(sd, un) ==
  [nodes |-> ParentNodes(sd),
   elements |-> [k \in 1..Cardinality(sd.intervals) |-> DomainElement(sd, k - 1, un)],
   faces |-> <<>>,
   coordinates |-> SegmentCoordinates(sd)]

\* Domain mode on a 2D mesh: one quadrilateral on the corner nodes 0..3,
\* refined into four children.  Nodes 4..7 are the mid-edge nodes of the
\* root, node 8 its centre (between the mid-edge nodes 4 and 6), nodes 9..20
\* the edge nodes of the children.
QuadNodePairs ==
  <<(<<0, 0>>), (<<1, 1>>), (<<2, 2>>), (<<3, 3>>),
    (<<0, 1>>), (<<1, 2>>), (<<2, 3>>), (<<0, 3>>), (<<4, 6>>),
    (<<0, 4>>), (<<4, 8>>), (<<7, 8>>), (<<0, 7>>),
    (<<1, 4>>), (<<1, 5>>), (<<5, 8>>),
    (<<2, 5>>), (<<2, 6>>), (<<6, 8>>),
    (<<3, 6>>), (<<3, 7>>)>>

QuadChildNodes == <<(<<0, 4, 8, 7>>), (<<4, 1, 5, 8>>), (<<8, 5, 2, 6>>), (<<7, 8, 6, 3>>)>>

\* Element 0 is the root, elements 1..4 its children; element un (none if
\* un = -1) carries an attribute outside the filter.
QuadElement(e, un) ==
  [geom |-> "SQUARE",
   ref_type |-> IF e = 0 THEN RefXY ELSE 0,
   rank |-> ElemRank(e),
   attribute |-> IF e = un THEN 2 ELSE 1,
   parent |-> IF e = 0 THEN -1 ELSE 0,
   node |-> IF e = 0 THEN <<1, 2, 3, 4>> ELSE QuadChildNodes[e]]

QuadMesh(un) ==
  [nodes |-> [id \in 0..(Len(QuadNodePairs) - 1) |->
                [p1 |-> QuadNodePairs[id + 1][1], p2 |-> QuadNodePairs[id + 1][2]]],
   elements |-> [k \in 1..5 |-> QuadElement(k - 1, un)],
   faces |-> <<>>,
   coordinates |-> <<0, 0, 0,  4, 0, 0,  4, 4, 0,  0, 4, 0>>]

\* Boundary mode: the forest is the tree of boundary faces of a 2D mesh.
\*   "boundary"  true boundary faces, one side each, coarse faces are gone
\*   "interface" the leaves below a refined root are slave faces of that
\*               root, which is still a face of the parent (a master)
\*   "ghost_quad", "ghost_tri"  faces the face list does not know, next to a
\*               quadrilateral or a triangle
\*   "internal"  conforming faces with an element on both sides
\* One leaf face may deviate: leaf sp > 0 is stored in the reverse direction,
\* leaf -sp > 0 has an attribute outside the filter.  The kinds go with the
\* deviation they interact with.
Kinds(sp) ==
  IF sp = 0 THEN {"boundary", "interface", "internal"}
  ELSE IF sp > 0 THEN {"boundary", "ghost_quad", "ghost_tri"}
  ELSE {"boundary"}

FaceTuple(sd, I, flipped) ==
  LET a == NodeIdOf(sd, I[1])
      b == NodeIdOf(sd, I[2])
  IN IF flipped THEN <<b, b, a, a>> ELSE <<a, a, b, b>>

\* The face of leaf j (from 1).  Its volume element is number j - 1; in kind
\* "internal" a second one, number NL + j - 1, lies on the other side.
LeafFace(sd, j, sp, kind) ==
  LET I == sd.leaves[j]
      NL == Len(sd.leaves)
  IN [nodes |-> FaceTuple(sd, I, sp = j),
      attribute |-> IF sp = -j THEN 2 ELSE 1,
      elem |-> IF kind = "internal" THEN <<j - 1, NL + j - 1>>
               ELSE IF j % 2 = 1 THEN <<j - 1, -1>> ELSE <<-1, j - 1>>,
      type |-> IF kind \in {"ghost_quad", "ghost_tri"} THEN "UNRECOGNIZED"
               ELSE IF kind = "interface" /\ I \notin RootIntervals(sd.nroots)
               THEN "SLAVE" ELSE "CONFORMING",
      unused |-> FALSE]

MasterFace(sd, I) ==
  [nodes |-> FaceTuple(sd, I, FALSE), attribute |-> 1,
   elem |-> <<2 * Len(sd.leaves), -1>>, type |-> "MASTER", unused |-> FALSE]

UnusedFace ==
  [nodes |-> NoNodes, attribute |-> -1, elem |-> <<-1, -1>>, type |-> "UNRECOGNIZED",
   unused |-> TRUE]

\* parent.faces: the masters, one unused slot, then the leaf faces in the
\* order ord (a permutation of the leaf numbers).
BoundaryMesh(sd, sp, ord, kind) ==
  LET NL == Len(sd.leaves)
      roots == SortedSeq({I[1] : I \in RootIntervals(sd.nroots) \cap sd.refined})
      masters == IF kind = "interface"
                 THEN [k \in 1..Len(roots) |-> MasterFace(sd, <<roots[k], roots[k] + Res>>)]
                 ELSE <<>>
  IN [nodes |-> ParentNodes(sd),
      elements |-> [k \in 1..(2 * NL + 1) |->
                      [geom |-> IF kind = "ghost_tri" THEN "TRIANGLE" ELSE "SQUARE",
                       rank |-> ElemRank(k - 1)]],
      faces |-> masters \o <<UnusedFace>> \o [k \in 1..NL |-> LeafFace(sd, ord[k], sp, kind)],
      coordinates |-> SegmentCoordinates(sd)]

\* The orders in which a rank may enumerate n faces: the rotations of 1..n
\* and the reverse order.
Orders(n) ==
  {[k \in 1..n |-> ((k - 1 + r) % n) + 1] : r \in 0..(n - 1)} \cup {[k \in 1..n |-> n - k + 1]}

\* parent.faces.Size(): the number of faces in use.
FacesSize(mesh) == Cardinality({k \in DOMAIN mesh.faces : ~mesh.faces[k].unused})

\* parent.faces.FindId(n0, n1, n2, n3): the face on these nodes, or -1
\* (slots are counted from 0).
FacesFindId(mesh, t) ==
  LET hit == {k \in DOMAIN mesh.faces :
                ~mesh.faces[k].unused /\ SortTuple(mesh.faces[k].nodes) = SortTuple(t)}
  IN IF hit = {} THEN -1 ELSE (CHOOSE k \in hit : TRUE) - 1

\* parent.ParentFaceNodes(nodes): replaces the node tuple of a segment face
\* by that of the next-coarser face and returns which child the face is
\* (child = -1 and the tuple unchanged when all nodes are top-level).  The
\* coarser tuple keeps the direction of the fine one: the face (a, m) below
\* (a, q) is child 0, the face (m, q) is child 1.
ParentFaceNodes(nodes, t) ==
  LET a == t[1]
      b == t[3]
      top(x) == x < 0 \/ nodes[x].p1 = nodes[x].p2
      other(m, x) == IF nodes[m].p1 = x THEN nodes[m].p2 ELSE nodes[m].p1
  IN IF (\A k \in 1..4 : top(t[k])) \/ ~(t[1] = t[2] /\ t[3] = t[4])
     THEN [child |-> -1, nodes |-> t]
     ELSE IF ~top(b) /\ a \in {nodes[b].p1, nodes[b].p2}
     THEN [child |-> 0, nodes |-> <<a, a, other(b, a), other(b, a)>>]
     ELSE IF ~top(a) /\ b \in {nodes[a].p1, nodes[a].p2}
     THEN [child |-> 1, nodes |-> <<other(a, b), other(a, b), b, b>>]
     ELSE [child |-> -1, nodes |-> t]

\* ------------------------------------------------------------- containers
\* m[k] = v on a std::unordered_map (the empty map is <<>>).
MapPut(m, k, v) == (k :> v) @@ m
\* m[k] read through operator[]: a missing key is inserted with value 0.
MapTouch(m, k) == IF k \in DOMAIN m THEN m ELSE MapPut(m, k, 0)

\* UniqueIndexGenerator::Get(key, new_index): the id of key, allocating the
\* next unused one on the first call for key.
GetFresh(gen, key) ==
  [gen |-> [counter |-> gen.counter + 1, idx |-> MapPut(gen.idx, key, gen.counter)],
   id |-> gen.counter, is_new |-> TRUE]

\* Get without the lookup: every call allocates.
GetAlwaysFresh(gen, key) == GetFresh(gen, key)

Get(gen, key) ==
  IF key \in DOMAIN gen.idx
  THEN [gen |-> gen, id |-> gen.idx[key], is_new |-> FALSE]
  ELSE GetFresh(gen, key)

\* One call of node_ids.Get on the pair r = [gen, log] of the generator and
\* the record of the calls made so far.
Call(r, key) ==
  LET g == Get(r.gen, key)
  IN [gen |-> g.gen, id |-> g.id, is_new |-> g.is_new,
      log |-> Append(r.log, [key |-> key, id |-> g.id, is_new |-> g.is_new])]

\* ------------------------------------------------------- boundary scan
\* The classification with the segment test in front of the triangle test.
face_geom_segment_first(t) ==
  IF t[1] = t[2] /\ t[3] = t[4] THEN "SEGMENT"
  ELSE IF t[4] = -1 THEN "TRIANGLE"
  ELSE "SQUARE"

\* The lambda face_geom_from_nodes: the triangle test comes first.
face_geom_from_nodes(t) ==
  IF t[4] = -1 THEN "TRIANGLE"
  ELSE IF t[1] = t[2] /\ t[3] = t[4] THEN "SEGMENT"
  ELSE "SQUARE"

\* The key of pnodes_new_elem: FaceNodes compares the sorted node sets.
FaceKey(t) == SortTuple(t)

\* The rank lambda taking the larger of the two ranks.
FaceRankMax(mesh, face) ==
  LET rank0 == IF face.elem[1] >= 0 THEN El(mesh.elements, face.elem[1]).rank ELSE -1
      rank1 == IF face.elem[2] >= 0 THEN El(mesh.elements, face.elem[2]).rank ELSE -1
  IN IF rank0 < 0 THEN rank1
     ELSE IF rank1 < 0 THEN rank0
     ELSE IF rank0 < rank1 THEN rank1 ELSE rank0

\* The rank lambda of a face element.
FaceRank(mesh, face) ==
  LET rank0 == IF face.elem[1] >= 0 THEN El(mesh.elements, face.elem[1]).rank ELSE -1
      rank1 == IF face.elem[2] >= 0 THEN El(mesh.elements, face.elem[2]).rank ELSE -1
  IN IF rank0 < 0 THEN rank1
     ELSE IF rank1 < 0 THEN rank0
     ELSE IF rank0 < rank1 THEN rank0 ELSE rank1

\* The scan without the assertion of lines 218-219.
ScanVerdictUnchecked(b, mesh, i, dbg) ==
  LET face == mesh.faces[i + 1] IN
  IF face.unused THEN "unused"
  ELSE IF ~HasAttribute(face, attributes) \/ face.type = "MASTER" THEN "skip"
  ELSE IF FaceKey(face.nodes) \in DOMAIN b.pnodes_new_elem THEN "skip"
  ELSE "add"

\* What the scan does with face slot i before it creates anything.
ScanVerdict(b, mesh, i, dbg) ==
  LET face == mesh.faces[i + 1] IN
  IF face.unused THEN "unused"
  ELSE IF ~HasAttribute(face, attributes) \/ face.type = "MASTER" THEN "skip"
  ELSE IF FaceKey(face.nodes) \in DOMAIN b.pnodes_new_elem THEN "skip"
  ELSE IF dbg /\ ~(face.elem[1] < 0 \/ face.elem[2] < 0) THEN "abort"
  ELSE "add"

\* The nodes a new face element contributes to new_nodes.
FaceNewNodes(mesh, t) ==
  LET gi == GI[face_geom_from_nodes(t)] IN
  {t[k] : k \in {k \in 1..4 : t[k] # -1}}
    \cup {NodesFindId(mesh.nodes, t[gi.edges[e][1] + 1], t[gi.edges[e][2] + 1])
          : e \in 1..gi.ne}

\* The element of face slot i is created and registered.
AddFaceElement(b, mesh, i) ==
  LET face == mesh.faces[i + 1]
      t == face.nodes
      id == Len(b.elements)
      el == [NewElement(face_geom_from_nodes(t), face.attribute)
               EXCEPT !.rank = FaceRank(mesh, face), !.node = t]
  IN [b EXCEPT
        !.elements = Append(@, el),
        !.pnodes_new_elem = MapPut(@, FaceKey(t), [key |-> t, elem |-> id]),
        !.parent_element_ids_ = Append(@, i),
        !.parent_to_submesh_element_ids_ = MapPut(@, i, id),
        !.new_nodes = @ \cup FaceNewNodes(mesh, t),
        !.fn = t,
        !.new_elem_id = id]

\* The child slots of a parent whose nodes change from old to new: slot i2
\* receives the child of slot i1 for the first i2 with new[i1] = old[i2];
\* a slot that no i1 writes keeps the indeterminate value of the local
\* array, given by g.
FirstIndex(t, v) ==
  IF \E k \in 1..4 : t[k] = v THEN SetMin({k \in 1..4 : t[k] = v}) ELSE 0

\* The slots of the local child array that no i1 writes.
Unwritten(new, old) == {i2 \in 1..4 : \A i1 \in 1..4 : FirstIndex(old, new[i1]) # i2}

PermuteChildren(new, old, ch, g) ==
  [i2 \in 1..4 |->
     IF i2 \in Unwritten(new, old) THEN g[i2]
     ELSE ch[SetMax({i1 \in 1..4 : FirstIndex(old, new[i1]) = i2})]]

\* The values an uninitialised int of the local child array may hold.
Indeterminate == {-1, 0}

\* The orientation test without its first operand: any mismatch is repaired.
NeedsFixAlways(mesh, face, child, t, stored) == t # stored

\* The orientation test that guards the re-ordering of an existing parent.
NeedsFix(mesh, face, child, t, stored) ==
  LET elem == El(mesh.elements, IF face.elem[1] >= 0 THEN face.elem[1] ELSE face.elem[2])
  IN /\ \/ (elem.geom = "TRIANGLE" /\ child # 3)
        \/ face.type # "UNRECOGNIZED"
     /\ t # stored

\* One pass of the ascent loop for the element b.new_elem_id of face slot i;
\* b.climbing tells whether the loop goes on.
AscentOnto(b, mesh, face, t, child, key, g) ==
  LET new_parent == key \notin DOMAIN b.pnodes_new_elem
      pelem_id == IF new_parent THEN Len(b.elements)
                  ELSE b.pnodes_new_elem[key].elem
      stored == IF new_parent THEN t ELSE b.pnodes_new_elem[key].key
      fix_parent == ~new_parent /\ NeedsFix(mesh, face, child, t, stored)
      es0 == IF new_parent
             THEN Append(b.elements, NewElement(face_geom_from_nodes(t), face.attribute))
             ELSE b.elements
      old == El(es0, pelem_id)
      fixed == IF ~fix_parent THEN old
               ELSE IF IsLeaf(old) THEN [old EXCEPT !.node = NoNodes]
               ELSE [old EXCEPT !.node = PermuteChildren(t, stored, old.node, g)]
      wired == [fixed EXCEPT !.ref_type = RefX, !.node[child + 1] = b.new_elem_id]
      es1 == [es0 EXCEPT ![pelem_id + 1] = wired]
  IN IF child = -1
     THEN [b EXCEPT !.elements[b.new_elem_id + 1].parent = -1, !.climbing = FALSE]
     ELSE [b EXCEPT
             !.elements = [es1 EXCEPT ![b.new_elem_id + 1].parent = pelem_id],
             !.pnodes_new_elem =
                IF new_parent \/ fix_parent
                THEN MapPut(@, key, [key |-> t, elem |-> pelem_id])
                ELSE @,
             !.parent_element_ids_ =
                IF new_parent THEN Append(@, FacesFindId(mesh, t)) ELSE @,
             !.fn = t,
             !.new_elem_id = IF new_parent \/ fix_parent THEN pelem_id ELSE @,
             !.climbing = new_parent \/ fix_parent]

AscentStep(b, mesh, i, g) ==
  CHOOSE r \in
    UNION {{AscentOnto(b, mesh, mesh.faces[i + 1], up.nodes, up.child, key, g) :
              key \in {FaceKey(up.nodes)}} :
             up \in {ParentFaceNodes(mesh.nodes, b.fn)}} : TRUE

\* --------------------------------------------------- node registration
\* An iteration of the loop over new_nodes that stores the size of
\* parent_node_ids_ after the append instead of the new id.
RegisterNodeSizeAfter(r, n) ==
  LET c == Call([gen |-> r.gen, log |-> r.log], n) IN
  [r EXCEPT
     !.gen = c.gen,
     !.log = c.log,
     !.failed = @ \/ ~c.is_new,
     !.nodes = MapPut(@, c.id, [p1 |-> c.id, p2 |-> c.id]),
     !.parent_node_ids_ = Append(@, n),
     !.parent_to_submesh_node_ids_ = MapPut(@, n, Len(r.parent_node_ids_) + 1)]

\* The loop over new_nodes (a std::set<int>, so in increasing order): every
\* node gets the next submesh id and both node maps are extended.  r holds
\* gen, log, nodes, parent_node_ids_ and parent_to_submesh_node_ids_.
RegisterNode(r, n) ==
  LET c == Call([gen |-> r.gen, log |-> r.log], n) IN
  [r EXCEPT
     !.gen = c.gen,
     !.log = c.log,
     !.failed = @ \/ ~c.is_new,
     !.nodes = MapPut(@, c.id, [p1 |-> c.id, p2 |-> c.id]),
     !.parent_node_ids_ = Append(@, n),
     !.parent_to_submesh_node_ids_ = MapPut(@, n, c.id)]

RECURSIVE RegisterNodes(_, _)
RegisterNodes(r, todo) ==
  IF todo = <<>> THEN r ELSE RegisterNodes(RegisterNode(r, Head(todo)), Tail(todo))

\* ---------------------------------------------------------- reordering
\* A comparator that puts the larger parent index first.
comp_elements_descending(es, tbl, l, r) ==
  IF El(es, l).parent = El(es, r).parent
  THEN LexLess(tbl[l + 1], tbl[r + 1])
  ELSE El(es, l).parent > El(es, r).parent

\* comp_elements(l, r) on the element array es and the side table tbl of
\* parent-face node tuples (l and r counted from 0).
comp_elements(es, tbl, l, r) ==
  IF El(es, l).parent = El(es, r).parent
  THEN LexLess(tbl[l + 1], tbl[r + 1])
  ELSE El(es, l).parent < El(es, r).parent

\* is_sorted answering true for every order.
parental_sorted_unchecked(es, tbl) == TRUE

\* is_sorted stopping one element early.
parental_sorted_but_last(es, tbl) ==
  \A k \in 1..(Len(es) - 2) : ~comp_elements(es, tbl, k, k - 1)

\* std::is_sorted of 0, 1, ..., n-1 under comp_elements.
parental_sorted(es, tbl) ==
  \A k \in 1..(Len(es) - 1) : ~comp_elements(es, tbl, k, k - 1)

\* A sort into descending order: x moves behind everything that is larger.
SortedPositionDescending(es, tbl, x) ==
  Cardinality({y \in 0..(Len(es) - 1) :
                 \/ comp_elements(es, tbl, x, y)
                 \/ (~comp_elements(es, tbl, y, x) /\ y < x)})

\* std::stable_sort of 0, 1, ..., n-1 under comp_elements: x moves behind
\* everything that is smaller and behind its equals of smaller index.
SortedPosition(es, tbl, x) ==
  Cardinality({y \in 0..(Len(es) - 1) :
                 \/ comp_elements(es, tbl, y, x)
                 \/ (~comp_elements(es, tbl, x, y) /\ y < x)})

old_to_new(es, tbl) == AsFcn([x \in 0..(Len(es) - 1) |-> SortedPosition(es, tbl, x)])

\* The inverse of a permutation of 0, 1, ..., n-1 given as a function.
InverseOf(o2n) ==
  AsSeq([k \in 1..Cardinality(DOMAIN o2n) |-> CHOOSE x \in DOMAIN o2n : o2n[x] = k - 1])

new_to_old(es, tbl) ==
  CHOOSE n2o \in {InverseOf(o2n) : o2n \in {old_to_new(es, tbl)}} : TRUE

\* A Permute that leaves the array as it is.
PermuteNothing(n2o, a) == a

\* Permute(new_to_old, a): entry k of the result is entry new_to_old[k] of a.
Permute(n2o, a) == AsSeq([k \in 1..Len(a) |-> a[n2o[k] + 1]])

\* The rebuild storing i + 1 for the element at index i.
RebuildInverseShifted(pids) ==
  LET keys == {pids[k] : k \in DOMAIN pids} \ {-1} IN
  [x \in keys |-> SetMax({k \in DOMAIN pids : pids[k] = x})]

\* The inverse map rebuilt after a permutation: entries of -1 are skipped and
\* a later index overwrites an earlier one with the same parent id.
RebuildInverse(pids) ==
  LET keys == {pids[k] : k \in DOMAIN pids} \ {-1} IN
  [x \in keys |-> SetMax({k \in DOMAIN pids : pids[k] = x}) - 1]

\* The child loop of element e: slots are renumbered up to the first negative
\* one and the rank becomes the minimum over the ranks found there.
RECURSIVE RelinkChildren(_, _, _, _)
RelinkChildren(es, e, c, o2n) ==
  IF c >= 4 \/ ChildAt(El(es, e), c) < 0 THEN es
  ELSE CHOOSE r \in
         {RelinkChildren(es1, e, c + 1, o2n) :
            es1 \in {LET nc == o2n[ChildAt(El(es, e), c)]
                         rk == MinInt(El(es, e).rank, El(es, nc).rank)
                     IN [es EXCEPT ![e + 1].node[c + 1] = nc, ![e + 1].rank = rk]}} : TRUE

RelinkElement(es, e, o2n) ==
  LET es1 == IF IsLeaf(El(es, e)) THEN es
             ELSE CHOOSE r \in {RelinkChildren(es0, e, 0, o2n) :
                                  es0 \in {[es EXCEPT ![e + 1].rank = IntMax]}} : TRUE
  IN [es1 EXCEPT ![e + 1].parent = IF @ = -1 THEN -1 ELSE o2n[@]]

\* The loop over all elements, in index order, on the permuted array.
RECURSIVE RelinkFrom(_, _, _)
RelinkFrom(es, e, o2n) ==
  IF e >= Len(es) THEN es
  ELSE CHOOSE r \in {RelinkFrom(es1, e + 1, o2n) : es1 \in {RelinkElement(es, e, o2n)}} : TRUE

\* One pass of the reordering loop on b (elements, parent_element_ids_,
\* new_elem_to_parent_face_nodes, parent_to_submesh_element_ids_).
Reordered(b, n2o, o2n) ==
  CHOOSE r \in
    {[b EXCEPT
        !.elements = RelinkFrom(es, 0, o2n),
        !.parent_element_ids_ = pids,
        !.new_elem_to_parent_face_nodes = Permute(n2o, @),
        !.parent_to_submesh_element_ids_ = RebuildInverse(pids)] :
       pids \in {Permute(n2o, b.parent_element_ids_)},
       es \in {Permute(n2o, b.elements)}} : TRUE

SortPass(b) ==
  CHOOSE r \in
    UNION {{Reordered(b, n2o, o2n) : n2o \in {InverseOf(o2n)}} :
             o2n \in {old_to_new(b.elements, b.new_elem_to_parent_face_nodes)}} : TRUE

\* The side table as the source builds it: one value-initialised tuple for
\* every entry of pnodes_new_elem.
EmptySideTable(pmap) == [k \in 1..Cardinality(DOMAIN pmap) |-> <<0, 0, 0, 0>>]

\* --------------------------------------------- boundary relabelling
\* The edge loop of leaf e: the edge node must exist and be registered.
RECURSIVE SignEdges(_, _, _, _)
SignEdges(r, mesh, e, k) ==
  LET el == El(r.elements, e)
      gi == GI[el.geom]
  IN IF k > gi.ne THEN r
     ELSE LET pid == NodesFindId(mesh.nodes, NodeAt(el, gi.edges[k][1]),
                                 NodeAt(el, gi.edges[k][2]))
              c == Call([gen |-> r.gen, log |-> r.log], pid)
          IN SignEdges([r EXCEPT !.gen = c.gen, !.log = c.log,
                                 !.failed = @ \/ pid < 0 \/ c.is_new],
                       mesh, e, k + 1)

\* The vertex loop of leaf e: parent node ids become submesh node ids.
RECURSIVE RelabelNodes(_, _, _)
RelabelNodes(r, e, n) ==
  LET el == El(r.elements, e) IN
  IF n >= GI[el.geom].nv THEN r
  ELSE LET m == MapTouch(r.parent_to_submesh_node_ids_, NodeAt(el, n))
       IN RelabelNodes([r EXCEPT
                          !.failed = @ \/ NodeAt(el, n) \notin DOMAIN r.parent_to_submesh_node_ids_,
                          !.parent_to_submesh_node_ids_ = m,
                          !.elements[e + 1].node[n + 1] = m[NodeAt(el, n)]],
                       e, n + 1)

RECURSIVE BoundaryRelabelFrom(_, _, _)
BoundaryRelabelFrom(r, mesh, e) ==
  IF e >= Len(r.elements) THEN r
  ELSE IF IsLeaf(El(r.elements, e))
  THEN BoundaryRelabelFrom(RelabelNodes(SignEdges(r, mesh, e, 1), e, 0), mesh, e + 1)
  ELSE BoundaryRelabelFrom(r, mesh, e + 1)

\* ------------------------------------------------------- domain pass
\* The copy loop: every parent element with a requested attribute is copied
\* and, if it is a leaf, its vertex and edge nodes are collected.
LeafNodes(mesh, el) ==
  LET gi == GI[el.geom] IN
  {NodeAt(el, n) : n \in 0..(gi.nv - 1)}
    \cup {NodesFindId(mesh.nodes, NodeAt(el, gi.edges[e][1]), NodeAt(el, gi.edges[e][2]))
          : e \in 1..gi.ne}

\* The copy loop without the attribute test.
RECURSIVE DomainCopyAll(_, _, _)
DomainCopyAll(b, mesh, k) ==
  IF k >= Len(mesh.elements) THEN b
  ELSE LET pe == El(mesh.elements, k) IN
       DomainCopyAll(
         [b EXCEPT
            !.elements = Append(@, pe),
            !.parent_element_ids_ = Append(@, k),
            !.parent_to_submesh_element_ids_ = MapPut(@, k, Len(b.elements)),
            !.new_nodes = IF IsLeaf(pe) THEN @ \cup LeafNodes(mesh, pe) ELSE @],
         mesh, k + 1)

RECURSIVE DomainCopyFrom(_, _, _)
DomainCopyFrom(b, mesh, k) ==
  IF k >= Len(mesh.elements) THEN b
  ELSE LET pe == El(mesh.elements, k) IN
       IF ~HasAttribute(pe, attributes) THEN DomainCopyFrom(b, mesh, k + 1)
       ELSE DomainCopyFrom(
              [b EXCEPT
                 !.elements = Append(@, pe),
                 !.parent_element_ids_ = Append(@, k),
                 !.parent_to_submesh_element_ids_ = MapPut(@, k, Len(b.elements)),
                 !.new_nodes = IF IsLeaf(pe) THEN @ \cup LeafNodes(mesh, pe) ELSE @],
              mesh, k + 1)

\* The nodes of the submesh vertices, in vertex order: the vertices of the
\* copied leaves.
SubMeshVertexNodes(es) ==
  SortedSeq(UNION {{NodeAt(es[k], n) : n \in 0..(GI[es[k].geom].nv - 1)}
                   : k \in {k \in DOMAIN es : IsLeaf(es[k])}})

\* The loop over the submesh vertices: every node is looked up again and
\* must be known.
RECURSIVE BindVertices(_, _)
BindVertices(r, todo) ==
  IF todo = <<>> THEN r
  ELSE LET c == Call([gen |-> r.gen, log |-> r.log], Head(todo))
       IN BindVertices([r EXCEPT !.gen = c.gen, !.log = c.log, !.failed = @ \/ c.is_new],
                       Tail(todo))

\* Leaf e of the domain pass: the vertex loop ...
RECURSIVE DomainNodes(_, _, _)
DomainNodes(r, e, n) ==
  LET el == El(r.elements, e) IN
  IF n >= GI[el.geom].nv THEN r
  ELSE LET c == Call([gen |-> r.gen, log |-> r.log], NodeAt(el, n))
       IN DomainNodes([r EXCEPT !.gen = c.gen, !.log = c.log, !.failed = @ \/ c.is_new,
                                !.elements[e + 1].node[n + 1] = c.id],
                      e, n + 1)

\* ... and the edge loop, which registers an edge node on first encounter.
RECURSIVE DomainEdges(_, _, _, _)
DomainEdges(r, mesh, e, k) ==
  LET el == El(r.elements, e)
      gi == GI[el.geom]
  IN IF k > gi.ne THEN r
     ELSE LET pid == NodesFindId(mesh.nodes,
                                 r.parent_node_ids_[NodeAt(el, gi.edges[k][1]) + 1],
                                 r.parent_node_ids_[NodeAt(el, gi.edges[k][2]) + 1])
              c == Call([gen |-> r.gen, log |-> r.log], pid)
              r1 == [r EXCEPT !.gen = c.gen, !.log = c.log, !.failed = @ \/ pid < 0]
          IN DomainEdges(
               IF c.is_new
               THEN [r1 EXCEPT
                       !.nodes = MapPut(@, c.id, [p1 |-> c.id, p2 |-> c.id]),
                       !.parent_node_ids_ = Append(@, pid),
                       !.parent_to_submesh_node_ids_ = MapPut(@, pid, c.id)]
               ELSE r1,
               mesh, e, k + 1)

\* An internal element: the child ids are read through operator[].
RECURSIVE DomainChildren(_, _, _)
DomainChildren(r, e, c) ==
  LET el == El(r.elements, e) IN
  IF c >= ref_type_num_children[el.ref_type] THEN r
  ELSE LET m == MapTouch(r.parent_to_submesh_element_ids_, ChildAt(el, c))
       IN DomainChildren([r EXCEPT
                            !.parent_to_submesh_element_ids_ = m,
                            !.elements[e + 1].node[c + 1] = m[ChildAt(el, c)]],
                         e, c + 1)

\* The parent is read through at(), which throws for a missing key.
DomainParent(r, e) ==
  LET up == El(r.elements, e).parent IN
  IF up < 0 THEN r
  ELSE IF up \notin DOMAIN r.parent_to_submesh_element_ids_ THEN [r EXCEPT !.thrown = TRUE]
  ELSE [r EXCEPT !.elements[e + 1].parent = r.parent_to_submesh_element_ids_[up]]

RECURSIVE DomainRelabelFrom(_, _, _)
DomainRelabelFrom(r, mesh, e) ==
  IF e >= Len(r.elements) \/ r.thrown THEN r
  ELSE LET r1 == IF IsLeaf(El(r.elements, e))
                 THEN DomainEdges(DomainNodes(r, e, 0), mesh, e, 1)
                 ELSE DomainChildren(r, e, 0)
       IN DomainRelabelFrom(DomainParent(r1, e), mesh, e + 1)

\* ------------------------------------------------------- finalization
\* Node i of the submesh takes over the parents of its parent-mesh node,
\* translated through operator[] of the node map.  Reading the parent node
\* of an id that is no node of the parent mesh yields the indeterminate g.
RECURSIVE ReparentFrom(_, _, _, _)
ReparentFrom(r, mesh, k, g) ==
  IF k >= Len(r.parent_node_ids_) THEN r
  ELSE LET pn == r.parent_node_ids_[k + 1]
           pnode == IF pn \in DOMAIN mesh.nodes THEN mesh.nodes[pn] ELSE [p1 |-> g, p2 |-> g]
           m == MapTouch(MapTouch(r.parent_to_submesh_node_ids_, pnode.p1), pnode.p2)
       IN ReparentFrom([r EXCEPT
                          !.parent_to_submesh_node_ids_ = m,
                          !.nodes = MapPut(@, k, [p1 |-> m[pnode.p1], p2 |-> m[pnode.p2]])],
                       mesh, k + 1, g)

\* root_state.Size() after InitRootElements: the number of root elements.
RootCount(es) == Cardinality({k \in DOMAIN es : es[k].parent = -1})

\* The pair without the negation of the second entry.
RootPairSameSign(r) == <<r, r>>
\* The pair a rank hands to the all-reduce, and MPI_MIN over the pairs.
RootPair(r) == <<r, -r>>
AllreduceMin(pairs) ==
  <<SetMin({pairs[k][1] : k \in DOMAIN pairs}), SetMin({pairs[k][2] : k \in DOMAIN pairs})>>
\* The assertion each rank evaluates on the reduced pair.
RootsAgree(q) == q[1] = -q[2]

\* ------------------------------------------------------------ the tail
\* NCMesh::Update as far as the constructor reads its result: leaf_elements
\* lists the leaves below the roots 0 .. root_state.Size() - 1, each tree
\* depth first, the children in slot order.  (No leaf is kept apart as a
\* ghost: the ranks of the model are labels only.)  The traversal recurses
\* without a visited set, so a child link that leads back to an element on
\* the recursion stack never returns (loop).
RECURSIVE CollectLeafElements(_, _, _)
RECURSIVE CollectChildren(_, _, _, _)
CollectLeafElements(es, e, path) ==
  IF e \in path \/ e \notin 0..(Len(es) - 1) THEN [loop |-> TRUE, leaves |-> <<>>]
  ELSE IF IsLeaf(El(es, e)) THEN [loop |-> FALSE, leaves |-> <<e>>]
  ELSE CollectChildren(es, e, 0, path \cup {e})

CollectChildren(es, e, c, path) ==
  IF c >= Len(NoNodes) THEN [loop |-> FALSE, leaves |-> <<>>]
  ELSE LET ch == ChildAt(El(es, e), c)
           rest == CollectChildren(es, e, c + 1, path)
       IN IF ch < 0 THEN rest
          ELSE LET sub == CollectLeafElements(es, ch, path)
               IN [loop |-> sub.loop \/ rest.loop, leaves |-> sub.leaves \o rest.leaves]

RECURSIVE UpdateLeafElements(_, _, _)
UpdateLeafElements(es, nroots, r) ==
  IF r >= nroots THEN [loop |-> FALSE, leaves |-> <<>>]
  ELSE LET tree == CollectLeafElements(es, r, {})
           rest == UpdateLeafElements(es, nroots, r + 1)
       IN [loop |-> tree.loop \/ rest.loop, leaves |-> tree.leaves \o rest.leaves]

\* parent.elements[e].index: the position of e among the leaves of the parent
\* mesh (its element number in the Mesh), -1 for an internal element.
ElementIndex(mesh, e) ==
  LET lv == UpdateLeafElements(mesh.elements, RootCount(mesh.elements), 0).leaves
      at == {k \in DOMAIN lv : lv[k] = e}
  IN IF at = {} THEN -1 ELSE SetMin(at) - 1

\* The face slots of the parent that are faces of the Mesh (leaf faces).
MeshFaces(mesh) ==
  {k \in DOMAIN mesh.faces : ~mesh.faces[k].unused /\ mesh.faces[k].type # "MASTER"}

\* parent.faces[slot].index (slot from 0): the Mesh faces are numbered in slot
\* order, the master faces follow them, an unused slot has none.
FaceIndex(mesh, slot) ==
  LET k == slot + 1
      before(S) == Cardinality({j \in S : j < k})
      masters == {j \in DOMAIN mesh.faces : mesh.faces[j].type = "MASTER"}
  IN IF mesh.faces[k].unused THEN -1
     ELSE IF k \in masters THEN Cardinality(MeshFaces(mesh)) + before(masters)
     ELSE before(MeshFaces(mesh))

\* Mesh::GetFaceToBdrElMap: one entry per Mesh face, the boundary element on
\* it.  Every Mesh face of the model carries a boundary element; they are
\* numbered against the face numbering.
GetFaceToBdrElMap(mesh) ==
  LET n == Cardinality(MeshFaces(mesh))
  IN [f \in 1..n |-> n - f]

\* The element list of the owning submesh on entry: the Mesh elements
\* (Domain) or boundary elements (Boundary) of the parent with a requested
\* attribute, in increasing order, and the inverse array over all of them.
SubMeshElements(mesh, mode) ==
  LET ids == IF mode = "Domain"
             THEN {ElementIndex(mesh, k - 1) :
                     k \in {j \in DOMAIN mesh.elements :
                              /\ IsLeaf(mesh.elements[j])
                              /\ HasAttribute(mesh.elements[j], attributes)}}
             ELSE {GetFaceToBdrElMap(mesh)[FaceIndex(mesh, k - 1) + 1] :
                     k \in {j \in MeshFaces(mesh) : HasAttribute(mesh.faces[j], attributes)}}
      total == IF mode = "Domain"
               THEN Cardinality({j \in DOMAIN mesh.elements : IsLeaf(mesh.elements[j])})
               ELSE Cardinality(MeshFaces(mesh))
      pids == SortedSeq(ids)
  IN [parent_element_ids_ |-> pids,
      parent_to_submesh_element_ids_ |->
        AsSeq([x \in 1..total |->
                 IF x - 1 \in ids THEN (CHOOSE k \in DOMAIN pids : pids[k] = x - 1) - 1 ELSE -1])]

\* a[i] of an Array<int> or std::vector (i from 0); out of bounds the read
\* yields g.
ReadAt(a, i, g) == IF i \in 0..(Len(a) - 1) THEN a[i + 1] ELSE g
\* a[i] = v; out of bounds the write lands outside the array.
WriteAt(a, i, v) == IF i \in 0..(Len(a) - 1) THEN [a EXCEPT ![i + 1] = v] ELSE a
InBounds(a, i) == i \in 0..(Len(a) - 1)

\* Lines 578-580: entry i of the loop that rewrites the maps of the submesh
\* in Domain mode.  r.wild records an access out of bounds; it reads g.
DomainMapsEntry(r, mesh, pids, leaves, i, g) ==
  LET leaf == ReadAt(leaves, i, g)
      pe == ReadAt(pids, leaf, g)
      index == IF InBounds(mesh.elements, pe) THEN ElementIndex(mesh, pe) ELSE g
  IN [r EXCEPT
        !.parent_element_ids_ = WriteAt(@, i, index),
        !.parent_to_submesh_element_ids_ = WriteAt(@, index, i),
        !.wild = \/ @
                 \/ ~InBounds(leaves, i) \/ ~InBounds(pids, leaf)
                 \/ ~InBounds(mesh.elements, pe)
                 \/ ~InBounds(r.parent_to_submesh_element_ids_, index)]

\* Lines 576-581: the loop, from entry i on.
RECURSIVE DomainMapsFrom(_, _, _, _, _, _)
DomainMapsFrom(r, mesh, pids, leaves, i, g) ==
  IF i >= Len(r.parent_element_ids_) THEN r
  ELSE DomainMapsFrom(DomainMapsEntry(r, mesh, pids, leaves, i, g),
                      mesh, pids, leaves, i + 1, g)

\* Lines 596-602: entry i of the loop of the Boundary mode.
BoundaryMapsEntry(r, mesh, pids, leaves, i, g) ==
  LET parent_face_to_be == GetFaceToBdrElMap(mesh)
      leaf == ReadAt(leaves, i, g)
      pe == ReadAt(pids, leaf, g)
      pfi == IF InBounds(mesh.faces, pe) THEN FaceIndex(mesh, pe) ELSE g
      pbe == ReadAt(parent_face_to_be, pfi, g)
  IN [r EXCEPT
        !.new_parent_element_ids = Append(@, pbe),
        !.new_parent_to_submesh_element_ids = WriteAt(@, pbe, i),
        !.wild = \/ @
                 \/ ~InBounds(leaves, i) \/ ~InBounds(pids, leaf)
                 \/ ~InBounds(mesh.faces, pe) \/ ~InBounds(parent_face_to_be, pfi)
                 \/ ~InBounds(r.new_parent_to_submesh_element_ids, pbe)]

\* Lines 594-603: the loop, from entry i on; r.n is the number of entries of
\* submesh.parent_element_ids_.
RECURSIVE BoundaryMapsFrom(_, _, _, _, _, _)
BoundaryMapsFrom(r, mesh, pids, leaves, i, g) ==
  IF i >= r.n THEN r
  ELSE BoundaryMapsFrom(BoundaryMapsEntry(r, mesh, pids, leaves, i, g),
                        mesh, pids, leaves, i + 1, g)

\* Lines 606-619 (MFEM_DEBUG): both lists hold the same ids.
SameIds(a, b) == {a[k] : k \in DOMAIN a} = {b[k] : k \in DOMAIN b}

\* NCMesh::CalcVertexPos: a top-level node reads its three coordinates, any
\* other node is the midpoint of its two parents.
RECURSIVE CalcVertexPos(_, _)
CalcVertexPos(mesh, pn) ==
  LET nd == mesh.nodes[pn] IN
  IF nd.p1 = nd.p2
  THEN SubSeq(mesh.coordinates, 3 * nd.p1 + 1, 3 * nd.p1 + 3)
  ELSE LET pos1 == CalcVertexPos(mesh, nd.p1)
           pos2 == CalcVertexPos(mesh, nd.p2)
       IN <<(pos1[1] + pos2[1]) \div 2, (pos1[2] + pos2[2]) \div 2,
            (pos1[3] + pos2[3]) \div 2>>

\* std::memcpy(&coordinates[3*n], pos, 3*sizeof(real_t)) on the array
\* co = [size, at]: at holds the slots written so far.
CopyPos(co, n, pos) ==
  [size |-> co.size,
   at |-> MapPut(MapPut(MapPut(co.at, 3 * n, pos[1]), 3 * n + 1, pos[2]), 3 * n + 2, pos[3])]

\* Lines 560-565: the body of the loop over parent_node_ids_ for the parent
\* node pn.  r holds gen, log, coordinates, new_node and wild (an access out
\* of bounds has happened; what it reads is g).
CopyCoordinate(r, mesh, pn, g) ==
  LET c == Call([gen |-> r.gen, log |-> r.log], pn)
      known == pn \in DOMAIN mesh.nodes
  IN [r EXCEPT
        !.gen = c.gen,
        !.log = c.log,
        !.wild = @ \/ ~known \/ 3 * c.id + 2 >= r.coordinates.size,
        !.new_node = @ \/ c.is_new,
        !.coordinates = CopyPos(@, c.id, IF known THEN CalcVertexPos(mesh, pn)
                                         ELSE <<g, g, g>>)]

\* Lines 558-566: the loop over parent_node_ids_.
RECURSIVE CopyCoordinatesFrom(_, _, _, _)
CopyCoordinatesFrom(r, mesh, todo, g) ==
  IF todo = <<>> THEN r
  ELSE CopyCoordinatesFrom(CopyCoordinate(r, mesh, Head(todo), g), mesh, Tail(todo), g)

WithoutCoordinates(mesh) == [mesh EXCEPT !.coordinates = <<>>]

\* --------------------------------------------------------------- state
VARIABLES
  pc,        \* where the constructor is
  from,      \* From::Domain or From::Boundary
  debug,     \* whether the build defines MFEM_DEBUG (MFEM_ASSERT is active)
  parent,    \* the parent mesh
  elements, nodes,
  parent_element_ids_, parent_to_submesh_element_ids_,
  parent_node_ids_, parent_to_submesh_node_ids_,
  node_ids,  \* the UniqueIndexGenerator
  get_log,   \* the calls of node_ids.Get so far: key, id, is_new
  new_nodes, pnodes_new_elem, new_elem_to_parent_face_nodes,
  i, ipe,    \* the cursors of the face scan
  fn, new_elem_id,   \* the cursor of the ascent
  root_state_size,   \* root_state.Size()
  contrib,   \* the root counts of all ranks, this rank first
  p,         \* the buffer of the all-reduce
  leaf_elements,   \* filled by Update()
  coordinates,     \* [size, at]: the size set and the slots written
  submesh    \* the element maps of the owning submesh

vars ==
  <<pc, from, debug, parent, elements, nodes, parent_element_ids_,
    parent_to_submesh_element_ids_, parent_node_ids_, parent_to_submesh_node_ids_,
    node_ids, get_log, new_nodes, pnodes_new_elem, new_elem_to_parent_face_nodes,
    i, ipe, fn, new_elem_id, root_state_size, contrib, p,
    leaf_elements, coordinates, submesh>>

meshVars == <<from, debug, parent>>
scanVars == <<i, ipe, fn, new_elem_id>>
nodeVars == <<nodes, parent_node_ids_, parent_to_submesh_node_ids_, node_ids, get_log>>
elemVars == <<elements, parent_element_ids_, parent_to_submesh_element_ids_>>
tailVars == <<root_state_size, contrib, p>>
subVars == <<leaf_elements, coordinates, submesh>>

InitCommon ==
  /\ elements = <<>>
  /\ nodes = <<>>
  /\ parent_element_ids_ = <<>>
  /\ parent_to_submesh_element_ids_ = <<>>
  /\ parent_node_ids_ = <<>>
  /\ parent_to_submesh_node_ids_ = <<>>
  /\ node_ids = [counter |-> 0, idx |-> <<>>]
  /\ get_log = <<>>
  /\ new_nodes = {}
  /\ pnodes_new_elem = <<>>
  /\ new_elem_to_parent_face_nodes = <<>>
  /\ i = 0
  /\ ipe = 0
  /\ fn = NoNodes
  /\ new_elem_id = -1
  /\ root_state_size = 0
  /\ contrib = <<>>
  /\ p = <<0, 0>>
  /\ leaf_elements = <<>>
  /\ coordinates = [size |-> 0, at |-> <<>>]
  /\ submesh = SubMeshElements(parent, from)

InitDomain ==
  /\ from = "Domain"
  /\ pc = "copy"
  /\ debug \in BOOLEAN
  /\ \E mesh \in {DomainMesh(ShapeData(sh), un) :
                      sh \in Shapes, un \in (-1)..(2 * MaxFaces - 2)}
                  \cup {QuadMesh(un) : un \in (-1)..4} :
       parent \in {mesh, WithoutCoordinates(mesh)}
  /\ InitCommon

\* A debug build runs the same code as a release build and stops where an
\* assertion fails; it is explored on the meshes without a deviating face.
InitBoundary ==
  /\ from = "Boundary"
  /\ pc = "scan"
  /\ \E sh \in Shapes :
       LET sd == ShapeData(sh)
           NL == Len(sd.leaves)
       IN \E sp \in (-NL)..NL : \E kind \in Kinds(sp) : \E ord \in Orders(NL) :
            /\ parent \in {BoundaryMesh(sd, sp, ord, kind),
                          WithoutCoordinates(BoundaryMesh(sd, sp, ord, kind))}
            /\ debug \in (IF sp = 0 THEN BOOLEAN ELSE {FALSE})
  /\ InitCommon

Init == InitDomain \/ InitBoundary

\* ------------------------------------------------------------- actions
\* Domain: the loop that copies the elements with a requested attribute.
DomainCopy ==
  /\ UNCHANGED subVars
  /\ pc = "copy"
  /\ \E b \in {DomainCopyFrom([elements |-> elements,
                              parent_element_ids_ |-> parent_element_ids_,
                              parent_to_submesh_element_ids_ |-> parent_to_submesh_element_ids_,
                              new_nodes |-> new_nodes], parent, 0)} :
        /\ elements' = b.elements
        /\ parent_element_ids_' = b.parent_element_ids_
        /\ parent_to_submesh_element_ids_' = b.parent_to_submesh_element_ids_
        /\ new_nodes' = b.new_nodes
  /\ pc' = "register"
  /\ UNCHANGED <<meshVars, scanVars, nodeVars, tailVars, pnodes_new_elem,
                 new_elem_to_parent_face_nodes>>

\* Boundary: one pass of the loop over the face slots, up to the creation of
\* the element of the face.
ScanFace ==
  /\ UNCHANGED subVars
  /\ pc = "scan"
  /\ ipe < FacesSize(parent)
  /\ \E verdict \in {ScanVerdict([pnodes_new_elem |-> pnodes_new_elem], parent, i, debug)} :
        \/ /\ verdict = "unused"
           /\ i' = i + 1
           /\ UNCHANGED <<pc, ipe, fn, new_elem_id, elemVars, new_nodes, pnodes_new_elem>>
        \/ /\ verdict = "skip"
           /\ i' = i + 1
           /\ ipe' = ipe + 1
           /\ UNCHANGED <<pc, fn, new_elem_id, elemVars, new_nodes, pnodes_new_elem>>
        \/ /\ verdict = "abort"
           /\ pc' = "aborted"
           /\ UNCHANGED <<i, ipe, fn, new_elem_id, elemVars, new_nodes, pnodes_new_elem>>
        \/ /\ verdict = "add"
           /\ \E b \in {AddFaceElement([elements |-> elements,
                                       pnodes_new_elem |-> pnodes_new_elem,
                                       parent_element_ids_ |-> parent_element_ids_,
                                       parent_to_submesh_element_ids_ |->
                                         parent_to_submesh_element_ids_,
                                       new_nodes |-> new_nodes, fn |-> fn,
                                       new_elem_id |-> new_elem_id], parent, i)} :
                 /\ elements' = b.elements
                 /\ pnodes_new_elem' = b.pnodes_new_elem
                 /\ parent_element_ids_' = b.parent_element_ids_
                 /\ parent_to_submesh_element_ids_' = b.parent_to_submesh_element_ids_
                 /\ new_nodes' = b.new_nodes
                 /\ fn' = b.fn
                 /\ new_elem_id' = b.new_elem_id
           /\ pc' = "ascend"
           /\ ipe' = ipe + 1
           /\ UNCHANGED i
  /\ UNCHANGED <<meshVars, nodeVars, tailVars, new_elem_to_parent_face_nodes>>

\* The indeterminate values one pass of the ascent may read: those of the
\* slots of the local child array that are read without having been written,
\* when an internal parent is re-ordered.
AscentReads ==
  UNION {UNION {IF /\ up.child # -1
                   /\ key \in DOMAIN pnodes_new_elem
                   /\ NeedsFix(parent, parent.faces[i + 1], up.child, up.nodes,
                               pnodes_new_elem[key].key)
                   /\ ~IsLeaf(El(elements, pnodes_new_elem[key].elem))
                THEN [Unwritten(up.nodes, pnodes_new_elem[key].key) -> Indeterminate]
                ELSE {<<>>} :
                  key \in {FaceKey(up.nodes)}} :
           up \in {ParentFaceNodes(parent.nodes, fn)}}

\* The ascent with an unconditional break behind the wiring.
AscendOnce ==
  /\ UNCHANGED subVars
  /\ pc = "ascend"
  /\ \E g \in AscentReads :
       \E b0 \in {[elements |-> elements,
                   pnodes_new_elem |-> pnodes_new_elem,
                   parent_element_ids_ |-> parent_element_ids_,
                   fn |-> fn, new_elem_id |-> new_elem_id,
                   climbing |-> TRUE]} :
       \E b \in {AscentStep(b0, parent, i, g)} :
          /\ elements' = b.elements
          /\ pnodes_new_elem' = b.pnodes_new_elem
          /\ parent_element_ids_' = b.parent_element_ids_
          /\ fn' = b.fn
          /\ new_elem_id' = b.new_elem_id
          /\ pc' = "scan"
          /\ i' = i + 1
  /\ UNCHANGED <<meshVars, nodeVars, tailVars, ipe, new_nodes,
                 parent_to_submesh_element_ids_, new_elem_to_parent_face_nodes>>

\* Boundary: one pass of the ascent loop.
Ascend ==
  /\ UNCHANGED subVars
  /\ pc = "ascend"
  /\ \E g \in AscentReads :
       \E b0 \in {[elements |-> elements,
                   pnodes_new_elem |-> pnodes_new_elem,
                   parent_element_ids_ |-> parent_element_ids_,
                   fn |-> fn, new_elem_id |-> new_elem_id,
                   climbing |-> TRUE]} :
       \E b \in {AscentStep(b0, parent, i, g)} :
          /\ elements' = b.elements
          /\ pnodes_new_elem' = b.pnodes_new_elem
          /\ parent_element_ids_' = b.parent_element_ids_
          /\ fn' = b.fn
          /\ new_elem_id' = b.new_elem_id
          /\ pc' = IF b.climbing THEN "ascend" ELSE "scan"
          /\ i' = IF b.climbing THEN i ELSE i + 1
  /\ UNCHANGED <<meshVars, nodeVars, tailVars, ipe, new_nodes,
                 parent_to_submesh_element_ids_, new_elem_to_parent_face_nodes>>

\* Boundary: the scan is over.
ScanDone ==
  /\ UNCHANGED subVars
  /\ pc = "scan"
  /\ ~(ipe < FacesSize(parent))
  /\ pc' = IF debug /\ Len(parent_element_ids_) # Len(elements) THEN "aborted" ELSE "register"
  /\ UNCHANGED <<meshVars, scanVars, nodeVars, elemVars, tailVars, new_nodes,
                 pnodes_new_elem, new_elem_to_parent_face_nodes>>

\* Both modes: the nodes collected in new_nodes are registered in increasing
\* order.  In Boundary mode the side table of the comparator is set up before.
RegisterNewNodes ==
  /\ UNCHANGED subVars
  /\ pc = "register"
  /\ \E r \in {RegisterNodes([gen |-> node_ids, log |-> get_log, nodes |-> nodes,
                             parent_node_ids_ |-> parent_node_ids_,
                             parent_to_submesh_node_ids_ |-> parent_to_submesh_node_ids_,
                             failed |-> FALSE], SortedSeq(new_nodes))} :
        IF debug /\ r.failed
        THEN pc' = "aborted" /\ UNCHANGED <<nodeVars, new_nodes, new_elem_to_parent_face_nodes>>
        ELSE /\ node_ids' = r.gen
             /\ get_log' = r.log
             /\ nodes' = r.nodes
             /\ parent_node_ids_' = r.parent_node_ids_
             /\ parent_to_submesh_node_ids_' = r.parent_to_submesh_node_ids_
             /\ new_nodes' = IF from = "Boundary" THEN {} ELSE new_nodes
             /\ new_elem_to_parent_face_nodes' =
                  IF from = "Boundary" THEN EmptySideTable(pnodes_new_elem)
                  ELSE new_elem_to_parent_face_nodes
             /\ pc' = IF from = "Boundary" THEN "sort" ELSE "vertices"
  /\ UNCHANGED <<meshVars, scanVars, elemVars, tailVars, pnodes_new_elem>>

\* Domain: the loop over the submesh vertices.
DomainVertices ==
  /\ UNCHANGED subVars
  /\ pc = "vertices"
  /\ \E r \in {BindVertices([gen |-> node_ids, log |-> get_log, failed |-> FALSE],
                           SubMeshVertexNodes(elements))} :
        IF debug /\ r.failed
        THEN pc' = "aborted" /\ UNCHANGED <<node_ids, get_log>>
        ELSE node_ids' = r.gen /\ get_log' = r.log /\ pc' = "relabel"
  /\ UNCHANGED <<meshVars, scanVars, elemVars, tailVars, nodes, parent_node_ids_,
                 parent_to_submesh_node_ids_, new_nodes, pnodes_new_elem,
                 new_elem_to_parent_face_nodes>>

\* Domain: the loop that relabels nodes, children and parents.
DomainRelabel ==
  /\ UNCHANGED subVars
  /\ pc = "relabel"
  /\ from = "Domain"
  /\ \E r \in {DomainRelabelFrom(
                [elements |-> elements, gen |-> node_ids, log |-> get_log, nodes |-> nodes,
                 parent_node_ids_ |-> parent_node_ids_,
                 parent_to_submesh_node_ids_ |-> parent_to_submesh_node_ids_,
                 parent_to_submesh_element_ids_ |-> parent_to_submesh_element_ids_,
                 failed |-> FALSE, thrown |-> FALSE], parent, 0)} :
        IF r.thrown \/ (debug /\ r.failed)
        THEN pc' = "aborted" /\ UNCHANGED <<nodeVars, elements, parent_to_submesh_element_ids_>>
        ELSE /\ elements' = r.elements
             /\ node_ids' = r.gen
             /\ get_log' = r.log
             /\ nodes' = r.nodes
             /\ parent_node_ids_' = r.parent_node_ids_
             /\ parent_to_submesh_node_ids_' = r.parent_to_submesh_node_ids_
             /\ parent_to_submesh_element_ids_' = r.parent_to_submesh_element_ids_
             /\ pc' = "reparent"
  /\ UNCHANGED <<meshVars, scanVars, tailVars, parent_element_ids_, new_nodes,
                 pnodes_new_elem, new_elem_to_parent_face_nodes>>

\* Boundary: one pass of the reordering loop.
SortElements ==
  /\ UNCHANGED subVars
  /\ pc = "sort"
  /\ ~parental_sorted(elements, new_elem_to_parent_face_nodes)
  /\ \E b0 \in {[elements |-> elements,
                 parent_element_ids_ |-> parent_element_ids_,
                 new_elem_to_parent_face_nodes |-> new_elem_to_parent_face_nodes,
                 parent_to_submesh_element_ids_ |-> parent_to_submesh_element_ids_]} :
     \E b \in {SortPass(b0)} :
        /\ elements' = b.elements
        /\ parent_element_ids_' = b.parent_element_ids_
        /\ new_elem_to_parent_face_nodes' = b.new_elem_to_parent_face_nodes
        /\ parent_to_submesh_element_ids_' = b.parent_to_submesh_element_ids_
  /\ UNCHANGED <<pc, meshVars, scanVars, nodeVars, tailVars, new_nodes, pnodes_new_elem>>

\* Boundary: the reordering loop is left.
SortDone ==
  /\ UNCHANGED subVars
  /\ pc = "sort"
  /\ parental_sorted(elements, new_elem_to_parent_face_nodes)
  /\ pc' = "relabel"
  /\ UNCHANGED <<meshVars, scanVars, nodeVars, elemVars, tailVars, new_nodes,
                 pnodes_new_elem, new_elem_to_parent_face_nodes>>

\* Boundary: the loop that signs in edges and relabels the leaf nodes.
BoundaryRelabel ==
  /\ UNCHANGED subVars
  /\ pc = "relabel"
  /\ from = "Boundary"
  /\ \E r \in {BoundaryRelabelFrom(
                [elements |-> elements, gen |-> node_ids, log |-> get_log,
                 parent_to_submesh_node_ids_ |-> parent_to_submesh_node_ids_,
                 failed |-> FALSE], parent, 0)} :
        IF debug /\ r.failed
        THEN pc' = "aborted"
             /\ UNCHANGED <<elements, node_ids, get_log, parent_to_submesh_node_ids_>>
        ELSE /\ elements' = r.elements
             /\ node_ids' = r.gen
             /\ get_log' = r.log
             /\ parent_to_submesh_node_ids_' = r.parent_to_submesh_node_ids_
             /\ pc' = "reparent"
  /\ UNCHANGED <<meshVars, scanVars, tailVars, nodes, parent_node_ids_, parent_element_ids_,
                 parent_to_submesh_element_ids_, new_nodes, pnodes_new_elem,
                 new_elem_to_parent_face_nodes>>

\* Both modes: the nodes are re-parented.  A parent node id that is no node
\* of the parent mesh is read out of bounds: the read returns an
\* indeterminate pair or the process dies.
Reparent ==
  /\ UNCHANGED subVars
  /\ pc = "reparent"
  /\ LET wild == \E k \in DOMAIN parent_node_ids_ : parent_node_ids_[k] \notin DOMAIN parent.nodes
     IN \/ /\ wild
           /\ pc' = "aborted"
           /\ UNCHANGED <<nodes, parent_to_submesh_node_ids_, root_state_size>>
        \/ \E g \in (IF wild THEN Indeterminate ELSE {-1}) :
             \E r \in {ReparentFrom([nodes |-> nodes,
                                    parent_node_ids_ |-> parent_node_ids_,
                                    parent_to_submesh_node_ids_ |-> parent_to_submesh_node_ids_],
                                   parent, 0, g)} :
                /\ nodes' = r.nodes
                /\ parent_to_submesh_node_ids_' = r.parent_to_submesh_node_ids_
                /\ root_state_size' = RootCount(elements)
                /\ pc' = IF debug THEN "allreduce" ELSE "update"
  /\ UNCHANGED <<meshVars, scanVars, elemVars, parent_node_ids_, node_ids, get_log,
                 contrib, p, new_nodes, pnodes_new_elem, new_elem_to_parent_face_nodes>>

\* Debug builds: all ranks reduce their root counts and compare.
CheckRoots ==
  /\ UNCHANGED subVars
  /\ pc = "allreduce"
  /\ \E peers \in [1..NumPeers -> 0..MaxPeerRoots] :
       /\ contrib' = <<root_state_size>> \o peers
       /\ p' = AllreduceMin([k \in 1..(NumPeers + 1) |-> RootPair(contrib'[k])])
       /\ pc' = IF RootsAgree(p') THEN "update" ELSE "aborted"
  /\ UNCHANGED <<meshVars, scanVars, elemVars, nodeVars, root_state_size, new_nodes,
                 pnodes_new_elem, new_elem_to_parent_face_nodes>>

\* Update(): the constructor reads leaf_elements from it.
UpdateMesh ==
  /\ pc = "update"
  /\ \E u \in {UpdateLeafElements(elements, root_state_size, 0)} :
       IF u.loop
       THEN pc' = "aborted" /\ UNCHANGED leaf_elements
       ELSE pc' = "coords" /\ leaf_elements' = u.leaves
  /\ UNCHANGED <<meshVars, scanVars, elemVars, nodeVars, tailVars, new_nodes,
                 pnodes_new_elem, new_elem_to_parent_face_nodes, coordinates, submesh>>

\* The coordinates of the retained nodes are copied if the parent has any.
\* A parent id that is no node of the parent mesh is read out of bounds: the
\* position is indeterminate or the process dies.
CopyCoordinates ==
  /\ pc = "coords"
  /\ IF Len(parent.coordinates) > 0
     THEN \E sized \in {[size |-> 3 * Len(parent_node_ids_), at |-> <<>>]} :
          \E r0 \in {CopyCoordinatesFrom([gen |-> node_ids, log |-> get_log,
                                          coordinates |-> sized,
                                          new_node |-> FALSE, wild |-> FALSE],
                                         parent, parent_node_ids_, -1)} :
            \/ /\ r0.wild \/ (debug /\ r0.new_node)
               /\ pc' = "aborted"
               /\ UNCHANGED <<coordinates, node_ids, get_log>>
            \/ /\ ~(debug /\ r0.new_node)
               /\ \E g \in (IF r0.wild THEN Indeterminate ELSE {-1}) :
                    \E r \in {CopyCoordinatesFrom([gen |-> node_ids, log |-> get_log,
                                                   coordinates |-> sized,
                                                   new_node |-> FALSE, wild |-> FALSE],
                                                  parent, parent_node_ids_, g)} :
                       /\ coordinates' = r.coordinates
                       /\ node_ids' = r.gen
                       /\ get_log' = r.log
               /\ pc' = "maps"
     ELSE pc' = "maps" /\ UNCHANGED <<coordinates, node_ids, get_log>>
  /\ UNCHANGED <<meshVars, scanVars, elemVars, tailVars, nodes, parent_node_ids_,
                 parent_to_submesh_node_ids_, new_nodes, pnodes_new_elem,
                 new_elem_to_parent_face_nodes, leaf_elements, submesh>>

\* submesh.parent_to_submesh_element_ids_ = -1
AllMinusOne(a) == [k \in DOMAIN a |-> -1]

\* The maps of the owning submesh after the loop of its mode.  An access out
\* of bounds reads an indeterminate value g.
RewrittenMaps(g) ==
  IF from = "Domain"
  THEN DomainMapsFrom([parent_element_ids_ |-> submesh.parent_element_ids_,
                       parent_to_submesh_element_ids_ |->
                         AllMinusOne(submesh.parent_to_submesh_element_ids_),
                       wild |-> FALSE],
                      parent, parent_element_ids_, leaf_elements, 0, g)
  ELSE LET r == BoundaryMapsFrom(
                  [n |-> Len(submesh.parent_element_ids_),
                   new_parent_element_ids |-> <<>>,
                   new_parent_to_submesh_element_ids |->
                     AllMinusOne(submesh.parent_to_submesh_element_ids_),
                   wild |-> FALSE],
                  parent, parent_element_ids_, leaf_elements, 0, g)
       IN [parent_element_ids_ |-> r.new_parent_element_ids,
           parent_to_submesh_element_ids_ |-> r.new_parent_to_submesh_element_ids,
           wild |-> r.wild]

\* The assertions of the Boundary branch (lines 590, 605-619), debug only.
MapsAsserted(r) ==
  from = "Boundary" =>
    /\ Len(leaf_elements) = Len(submesh.parent_element_ids_)
    /\ SameIds(r.parent_element_ids_, submesh.parent_element_ids_)

\* The element maps of the owning submesh are rewritten for the order of the
\* leaves.  After an access out of bounds the process dies or goes on with
\* what it read.
RewriteMaps ==
  /\ pc = "maps"
  /\ \E r0 \in {RewrittenMaps(-1)} :
       \/ /\ r0.wild \/ (debug /\ ~MapsAsserted(r0))
          /\ pc' = "aborted"
          /\ UNCHANGED submesh
       \/ /\ ~(debug /\ ~MapsAsserted(r0))
          /\ \E g \in (IF r0.wild THEN Indeterminate ELSE {-1}) :
               \E r \in {RewrittenMaps(g)} :
                  submesh' = [parent_element_ids_ |-> r.parent_element_ids_,
                              parent_to_submesh_element_ids_ |->
                                r.parent_to_submesh_element_ids_]
          /\ pc' = "done"
  /\ UNCHANGED <<meshVars, scanVars, elemVars, nodeVars, tailVars, new_nodes,
                 pnodes_new_elem, new_elem_to_parent_face_nodes, leaf_elements,
                 coordinates>>

Next ==
  \/ DomainCopy
  \/ ScanFace
  \/ Ascend
  \/ ScanDone
  \/ RegisterNewNodes
  \/ DomainVertices
  \/ DomainRelabel
  \/ SortElements
  \/ SortDone
  \/ BoundaryRelabel
  \/ Reparent
  \/ CheckRoots
  \/ UpdateMesh
  \/ CopyCoordinates
  \/ RewriteMaps

Spec == Init /\ [][Next]_vars

\* ------------------------------------------------- the registry alone
\* node_ids.Get under arbitrary sequences of calls: at most MaxCalls calls
\* with keys drawn from Keys (-1 is what FindId returns for a missing node).
MaxCalls == 4
Keys == (-1)..1

InitRegistry ==
  /\ pc = "registry"
  /\ from = "Domain"
  /\ debug = FALSE
  /\ parent = [nodes |-> <<>>, elements |-> <<>>, faces |-> <<>>, coordinates |-> <<>>]
  /\ InitCommon

GetCall ==
  /\ UNCHANGED subVars
  /\ pc = "registry"
  /\ Len(get_log) < MaxCalls
  /\ \E key \in Keys :
       \E c \in {Call([gen |-> node_ids, log |-> get_log], key)} :
          /\ node_ids' = c.gen
          /\ get_log' = c.log
  /\ UNCHANGED <<pc, meshVars, scanVars, elemVars, tailVars, nodes, parent_node_ids_,
                 parent_to_submesh_node_ids_, new_nodes, pnodes_new_elem,
                 new_elem_to_parent_face_nodes>>

SpecRegistry == InitRegistry /\ [][GetCall]_vars

\* ------------------------------------------- a second rank, as a function
\* The scan of a release build from face slot i on, as one function: what
\* ScanFace and Ascend do step by step.  An indeterminate read yields -1.
RECURSIVE ClimbFrom(_, _, _)
ClimbFrom(b, mesh, k) ==
  LET b1 == AscentStep(b, mesh, k, [n \in 1..4 |-> -1])
  IN IF b1.climbing THEN ClimbFrom(b1, mesh, k) ELSE b1

RECURSIVE ScanFrom(_, _, _, _)
ScanFrom(b, mesh, k, n) ==
  IF ~(n < FacesSize(mesh)) THEN b
  ELSE LET verdict == ScanVerdict(b, mesh, k, FALSE) IN
       IF verdict = "unused" THEN ScanFrom(b, mesh, k + 1, n)
       ELSE IF verdict = "skip" THEN ScanFrom(b, mesh, k + 1, n + 1)
       ELSE ScanFrom(ClimbFrom([AddFaceElement(b, mesh, k) EXCEPT !.climbing = TRUE], mesh, k),
                     mesh, k + 1, n + 1)

\* The reordering loop as one function.
RECURSIVE SortLoop(_)
SortLoop(b) ==
  IF parental_sorted(b.elements, b.new_elem_to_parent_face_nodes) THEN b
  ELSE SortLoop(SortPass(b))

\* The element array with which a rank leaves the reordering loop.
SortedElements(mesh) ==
  LET b == ScanFrom([elements |-> <<>>, pnodes_new_elem |-> <<>>,
                     parent_element_ids_ |-> <<>>, parent_to_submesh_element_ids_ |-> <<>>,
                     new_nodes |-> {}, fn |-> NoNodes, new_elem_id |-> -1,
                     climbing |-> FALSE], mesh, 0, 0)
  IN SortLoop([elements |-> b.elements,
               parent_element_ids_ |-> b.parent_element_ids_,
               new_elem_to_parent_face_nodes |-> EmptySideTable(b.pnodes_new_elem),
               parent_to_submesh_element_ids_ |-> b.parent_to_submesh_element_ids_]).elements

\* The same parent mesh on a rank that enumerates the faces in reverse.
Reenumerated(mesh) ==
  [mesh EXCEPT !.faces = [k \in 1..Len(@) |-> @[Len(@) + 1 - k]]]

\* --------------------------------------------------------- properties
Done == pc = "done"
\* The reordering loop of the boundary pass has been left.
PastSort == from = "Boundary" /\ pc \in {"relabel", "reparent", "allreduce", "done"}
\* m[k] as operator[] reads it: a missing key reads as 0.
Lookup(m, k) == IF k \in DOMAIN m THEN m[k] ELSE 0
\* The node tuple of the parent face that element k (from 1) stands for.
FaceNodesOf(k) == parent.faces[parent_element_ids_[k] + 1].nodes

\* C1 as claimed: after construction, parent_to_submesh_element_ids_ maps
\* the parent id of every submesh element, synthesized coarse elements
\* included, back to the index of the element.
C1_ElementMapCoversAll ==
  Done => \A k \in 1..Len(elements) :
            Lookup(parent_to_submesh_element_ids_, parent_element_ids_[k]) = k - 1

\* C1 amended: after construction, every submesh element has a parent id,
\* every parent id other than -1 is mapped back to the index of its element,
\* and -1 (a synthesized coarse element whose face is no face of the parent
\* mesh) is no key of the inverse map.
C1_ElementMapInverse ==
  Done => /\ Len(parent_element_ids_) = Len(elements)
          /\ -1 \notin DOMAIN parent_to_submesh_element_ids_
          /\ \A k \in 1..Len(elements) :
               parent_element_ids_[k] # -1 =>
                 /\ parent_element_ids_[k] \in DOMAIN parent_to_submesh_element_ids_
                 /\ parent_to_submesh_element_ids_[parent_element_ids_[k]] = k - 1

\* A finished boundary extraction with a synthesized element that has a
\* parent face (a master) and one that has none.
C1_Witness ==
  /\ Done
  /\ from = "Boundary"
  /\ \E k \in 1..Len(elements) :
       /\ ~IsLeaf(elements[k])
       /\ parent_element_ids_[k] >= 0
       /\ parent_to_submesh_element_ids_[parent_element_ids_[k]] = k - 1
  /\ \E k \in 1..Len(elements) : parent_element_ids_[k] = -1

\* C2: after construction, parent_to_submesh_node_ids_ maps the parent id of
\* every submesh node back to the node, and different submesh nodes have
\* different parent ids.
C2_NodeMapInverse ==
  Done => /\ \A k \in 1..Len(parent_node_ids_) :
               /\ parent_node_ids_[k] \in DOMAIN parent_to_submesh_node_ids_
               /\ parent_to_submesh_node_ids_[parent_node_ids_[k]] = k - 1
          /\ \A k, l \in 1..Len(parent_node_ids_) :
               k # l => parent_node_ids_[k] # parent_node_ids_[l]

\* A finished boundary extraction below a refined face: mid-edge nodes are
\* among the submesh nodes.
C2_Witness ==
  /\ Done
  /\ from = "Boundary"
  /\ Len(parent_node_ids_) >= 4
  /\ \E k \in 1..Len(elements) : ~IsLeaf(elements[k])

\* C3: once the reordering loop is left, the parent index does not decrease
\* along the element array, so the roots come before everything else.
C3_ParentsNonDecreasing ==
  PastSort =>
    /\ \A k \in 1..(Len(elements) - 1) : elements[k].parent <= elements[k + 1].parent
    /\ \A k, l \in 1..Len(elements) :
         elements[k].parent = -1 /\ elements[l].parent # -1 => k < l

\* The loop is left with roots and non-roots: at least one pass has run,
\* since a synthesized root is created after its first child.
C3_Witness ==
  /\ from = "Boundary"
  /\ pc = "relabel"
  /\ \E k, l \in 1..Len(elements) : elements[k].parent = -1 /\ elements[l].parent >= 0

\* C4 as claimed: once the reordering loop is left, two elements with the same
\* parent stand in the lexicographic order of the node tuples of their parent
\* faces, and elements with different parents stand in the order of the
\* parent ids.
C4_SiblingsInTupleOrder ==
  PastSort =>
    \A k, l \in 1..Len(elements) :
      k < l =>
        IF elements[k].parent # elements[l].parent
        THEN elements[k].parent < elements[l].parent
        ELSE parent_element_ids_[k] >= 0 /\ parent_element_ids_[l] >= 0
               => ~LexLess(FaceNodesOf(l), FaceNodesOf(k))

\* C5 as claimed: a rank that enumerates the same faces in another order
\* leaves the reordering loop with the same element array.
C5_OrderIndependent ==
  from = "Boundary" /\ pc = "relabel" /\ ~debug =>
    elements = SortedElements(Reenumerated(parent))

\* C6: the root check passes exactly if all ranks contribute the same root
\* count; the reduced pair is (min, -max) on every rank.
\* The construction goes on (to Update) exactly if they agree and dies at the
\* check otherwise.
C6_RootCheckIffEqual ==
  /\ [](contrib # <<>> =>
         LET agree == \A k \in 1..Len(contrib) : contrib[k] = contrib[1] IN
         /\ p[1] = SetMin({contrib[k] : k \in 1..Len(contrib)})
         /\ p[2] = -SetMax({contrib[k] : k \in 1..Len(contrib)})
         /\ RootsAgree(p) <=> agree)
  /\ [][CheckRoots =>
          LET agree == \A k \in 1..Len(contrib') : contrib'[k] = contrib'[1] IN
          /\ pc' = "update" <=> agree
          /\ pc' = "aborted" <=> ~agree]_vars

\* Two ranks disagree and the assertion has failed.
C6_Witness ==
  /\ contrib # <<>>
  /\ \E k \in 1..Len(contrib) : contrib[k] # contrib[1]
  /\ pc = "aborted"

\* A leaf with valid submesh nodes, an internal element with valid children.
ValidLeaf(el) ==
  /\ IsLeaf(el)
  /\ \A n \in 0..(GI[el.geom].nv - 1) : NodeAt(el, n) \in 0..(Len(parent_node_ids_) - 1)
ValidInternal(el) ==
  /\ ~IsLeaf(el)
  /\ \A c \in 0..(ref_type_num_children[el.ref_type] - 1) :
       ChildAt(el, c) \in 0..(Len(elements) - 1)

\* C7 as claimed: after construction every element is a leaf whose nodes are
\* submesh nodes or an internal element whose child slots all hold submesh
\* elements.
C7_LeafOrInternal ==
  Done => \A k \in 1..Len(elements) : ValidLeaf(elements[k]) \/ ValidInternal(elements[k])

\* The state of the reordering loop.
SortState ==
  [elements |-> elements,
   parent_element_ids_ |-> parent_element_ids_,
   new_elem_to_parent_face_nodes |-> new_elem_to_parent_face_nodes,
   parent_to_submesh_element_ids_ |-> parent_to_submesh_element_ids_]

\* C8: on an array for which parental_sorted holds the stable sort yields the
\* identity, and one more pass of the loop changes nothing.
C8_SortedIsFixpoint ==
  pc = "sort" /\ parental_sorted(elements, new_elem_to_parent_face_nodes) =>
    /\ new_to_old(elements, new_elem_to_parent_face_nodes) = [k \in 1..Len(elements) |-> k - 1]
    /\ old_to_new(elements, new_elem_to_parent_face_nodes) = [x \in 0..(Len(elements) - 1) |-> x]
    /\ SortPass(SortState) = SortState

\* A sorted array with a tree in it, reached by a pass of the loop.
C8_Witness ==
  /\ pc = "sort"
  /\ parental_sorted(elements, new_elem_to_parent_face_nodes)
  /\ Len(elements) >= 3
  /\ \E k \in 1..Len(elements) : ~IsLeaf(elements[k]) /\ elements[k].parent >= 0

\* C9: in every sequence of calls of Get, a key that was not passed before
\* gets the number of distinct keys passed before it and is reported new; a
\* key passed before gets the id of its first call and is reported known;
\* the registry holds these ids.
C9_RegistryContiguous ==
  \A k \in 1..Len(get_log) :
    LET e == get_log[k]
        before == {get_log[j].key : j \in 1..(k - 1)}
    IN /\ e.is_new <=> e.key \notin before
       /\ e.is_new => e.id = Cardinality(before)
       /\ ~e.is_new => \E j \in 1..(k - 1) :
                         get_log[j].key = e.key /\ get_log[j].is_new /\ get_log[j].id = e.id
       /\ e.key \in DOMAIN node_ids.idx /\ node_ids.idx[e.key] = e.id
       /\ node_ids.counter = Cardinality({get_log[j].key : j \in 1..Len(get_log)})

\* The second distinct key was registered and an earlier key asked again.
C9_Witness ==
  /\ pc = "registry"
  /\ \E k \in 1..Len(get_log) : get_log[k].is_new /\ get_log[k].id = 1
  /\ \E k \in 1..Len(get_log) : ~get_log[k].is_new /\ get_log[k].id = 0
  /\ Len(get_log) = MaxCalls

\* C10: an element created from a face has the smaller of the ranks of the
\* two adjacent elements, or the rank of the only adjacent element.
C10_FaceElementRank ==
  from = "Boundary" =>
    \A k \in 1..Len(elements) :
      IsLeaf(elements[k]) /\ parent_element_ids_[k] >= 0 =>
        LET face == parent.faces[parent_element_ids_[k] + 1]
            r0 == IF face.elem[1] >= 0 THEN El(parent.elements, face.elem[1]).rank ELSE -1
            r1 == IF face.elem[2] >= 0 THEN El(parent.elements, face.elem[2]).rank ELSE -1
        IN /\ face.elem[1] >= 0 /\ face.elem[2] >= 0 => elements[k].rank = SetMin({r0, r1})
           /\ face.elem[1] < 0 => elements[k].rank = r1
           /\ face.elem[2] < 0 => elements[k].rank = r0

\* An element of a face with two adjacent elements of different ranks, the
\* smaller one on the second side.
C10_Witness ==
  /\ from = "Boundary"
  /\ \E k \in 1..Len(elements) :
       /\ IsLeaf(elements[k])
       /\ parent_element_ids_[k] >= 0
       /\ LET face == parent.faces[parent_element_ids_[k] + 1] IN
          /\ face.elem[1] >= 0
          /\ face.elem[2] >= 0
          /\ El(parent.elements, face.elem[2]).rank < El(parent.elements, face.elem[1]).rank
          /\ elements[k].rank = El(parent.elements, face.elem[2]).rank

\* The face scan of the boundary pass is over and nothing has been reordered.
ScanOver == from = "Boundary" /\ pc = "register"
\* The next-coarser face of the leaf element k (from 1), from its node tuple.
CoarserOf(k) == ParentFaceNodes(parent.nodes, elements[k].node)
\* Elements k and l are leaves created from the two fine faces of one face.
FineSiblings(k, l) ==
  /\ k # l
  /\ IsLeaf(elements[k]) /\ IsLeaf(elements[l])
  /\ CoarserOf(k).child # -1 /\ CoarserOf(l).child # -1
  /\ FaceKey(CoarserOf(k).nodes) = FaceKey(CoarserOf(l).nodes)
\* Element q (from 1) is the coarse element of the fine siblings k and l: it
\* holds each of them once, both name it as parent, and each stands in the
\* child slot that the node order stored for q gives it.
CoarseOf(q, k, l) ==
  /\ ~IsLeaf(elements[q])
  /\ elements[k].parent = q - 1 /\ elements[l].parent = q - 1
  /\ {c \in 1..4 : elements[q].node[c] >= 0} = {CoarserOf(k).child + 1, CoarserOf(l).child + 1}
  /\ elements[q].node[CoarserOf(k).child + 1] = k - 1
  /\ elements[q].node[CoarserOf(l).child + 1] = l - 1
  /\ CoarserOf(k).child # CoarserOf(l).child
  /\ FaceKey(CoarserOf(k).nodes) \in DOMAIN pnodes_new_elem
  /\ pnodes_new_elem[FaceKey(CoarserOf(k).nodes)].elem = q - 1
  /\ pnodes_new_elem[FaceKey(CoarserOf(k).nodes)].key = CoarserOf(k).nodes
  /\ pnodes_new_elem[FaceKey(CoarserOf(k).nodes)].key = CoarserOf(l).nodes

\* C11 as claimed: when both fine faces of a coarse face were selected, the
\* scan ends with a coarse element that has exactly these two children, each
\* once and each naming it as parent, in the slots that its stored node order
\* gives them, whichever was found first and whether or not a repair ran.
C11_TwoChildrenWired ==
  ScanOver =>
    \A k, l \in 1..Len(elements) :
      FineSiblings(k, l) => \E q \in 1..Len(elements) : CoarseOf(q, k, l)

\* The indices of the parent elements whose attribute is in the filter.
SelectedElements ==
  {e \in 0..(Len(parent.elements) - 1) : HasAttribute(El(parent.elements, e), attributes)}

\* C12: in Domain mode, once the copy loop has run, the submesh has one
\* element for every parent element (leaf or internal) with a requested
\* attribute and no other, in increasing order of the parent index, each
\* with the geometry, attribute and refinement type of the element it copies.
C12_DomainCopiesSelected ==
  from = "Domain" /\ pc \notin {"copy", "registry"} =>
    /\ parent_element_ids_ = SortedSeq(SelectedElements)
    /\ \A k \in 1..(Len(parent_element_ids_) - 1) :
         parent_element_ids_[k] < parent_element_ids_[k + 1]
    /\ Len(elements) = Cardinality(SelectedElements)
    /\ \A k \in 1..Len(elements) :
         LET pe == El(parent.elements, parent_element_ids_[k]) IN
         /\ elements[k].geom = pe.geom
         /\ elements[k].attribute = pe.attribute
         /\ elements[k].ref_type = pe.ref_type
         /\ pc = "register" => elements[k] = pe

\* A root refined into four children, all selected, has been extracted: one
\* root, four leaves, five parent element ids.
C12_Witness ==
  /\ from = "Domain"
  /\ Done
  /\ Len(parent_element_ids_) = 5
  /\ RootCount(elements) = 1
  /\ Cardinality({k \in 1..Len(elements) : IsLeaf(elements[k])}) = 4
  /\ \E k \in 1..Len(elements) : elements[k].ref_type = RefXY

\* The parent element that submesh element e (from 0) was copied from.
CopiedFrom(e) == parent_element_ids_[e + 1]
\* Entry j (from 0) of the submesh maps names the parent element of the
\* j-th leaf and the inverse map leads back to j.
LeafMapped(j) ==
  /\ submesh.parent_element_ids_[j + 1] = ElementIndex(parent, CopiedFrom(leaf_elements[j + 1]))
  /\ submesh.parent_to_submesh_element_ids_[submesh.parent_element_ids_[j + 1] + 1] = j

\* C13: after a construction in Domain mode, entry i of
\* submesh.parent_element_ids_ is the Mesh element index of the parent
\* element that the i-th leaf (leaf_elements[i]) was copied from,
\* submesh.parent_to_submesh_element_ids_ maps that index back to i, and
\* every other entry of the inverse map is -1.
C13_DomainMapsFollowLeaves ==
  from = "Domain" /\ Done =>
    /\ \A j \in 0..(Len(submesh.parent_element_ids_) - 1) :
         j < Len(leaf_elements) /\ LeafMapped(j)
    /\ \A x \in 0..(Len(submesh.parent_to_submesh_element_ids_) - 1) :
         (\A j \in DOMAIN submesh.parent_element_ids_ : submesh.parent_element_ids_[j] # x)
           => submesh.parent_to_submesh_element_ids_[x + 1] = -1

\* The boundary element on the parent face that submesh element e (from 0)
\* stands for, -1 if the face is no Mesh face of the parent.
BdrElementOf(e) ==
  IF InBounds(parent.faces, CopiedFrom(e))
  THEN ReadAt(GetFaceToBdrElMap(parent), FaceIndex(parent, CopiedFrom(e)), -1)
  ELSE -1

\* C14: after a construction in Boundary mode, the parent face of the i-th
\* leaf translates to a boundary element index >= 0, entry i of
\* submesh.parent_element_ids_ is that index, the inverse map leads back to
\* i, and the rewritten list holds the same boundary elements as the list
\* the submesh held before.
C14_BoundaryMapsFollowLeaves ==
  from = "Boundary" /\ Done =>
    /\ \A j \in 0..(Len(submesh.parent_element_ids_) - 1) :
         /\ j < Len(leaf_elements)
         /\ BdrElementOf(leaf_elements[j + 1]) >= 0
         /\ submesh.parent_element_ids_[j + 1] = BdrElementOf(leaf_elements[j + 1])
         /\ submesh.parent_to_submesh_element_ids_[submesh.parent_element_ids_[j + 1] + 1] = j
    /\ SameIds(submesh.parent_element_ids_,
               SubMeshElements(parent, "Boundary").parent_element_ids_)

\* The coordinate copy is over (or was skipped: the parent has none).
PastCoordinates == pc \in {"maps", "done"}

\* Retained node n (from 0) has the three coordinates of its parent node.
CoordinatesOf(n) ==
  LET pn == parent_node_ids_[n + 1] IN
  /\ pn \in DOMAIN parent.nodes
  /\ \A c \in 0..2 :
       /\ 3 * n + c \in DOMAIN coordinates.at
       /\ coordinates.at[3 * n + c] = CalcVertexPos(parent, pn)[c + 1]

\* C15: if the parent has coordinates, the coordinate array has three
\* entries per retained node, the entries 3n .. 3n+2 of the retained node
\* with parent id pn and submesh id n are the parent's position of pn, every
\* entry has been written and no two nodes share a slot.
C15_CoordinatesCopied ==
  PastCoordinates /\ Len(parent.coordinates) > 0 =>
    /\ coordinates.size = 3 * Len(parent_node_ids_)
    /\ DOMAIN coordinates.at = 0..(coordinates.size - 1)
    /\ \A n \in 0..(Len(parent_node_ids_) - 1) :
         /\ Lookup(parent_to_submesh_node_ids_, parent_node_ids_[n + 1]) = n
         /\ CoordinatesOf(n)
    /\ \A k, l \in DOMAIN parent_node_ids_ :
         k # l => parent_node_ids_[k] # parent_node_ids_[l]

\* The scan is at a face in use that is selected, no master, not yet
\* registered and has a volume element on both sides.
AtTwoSidedFace ==
  /\ from = "Boundary" /\ pc = "scan" /\ ipe < FacesSize(parent)
  /\ LET face == parent.faces[i + 1] IN
     /\ ~face.unused
     /\ HasAttribute(face, attributes)
     /\ face.type # "MASTER"
     /\ FaceKey(face.nodes) \notin DOMAIN pnodes_new_elem
     /\ face.elem[1] >= 0 /\ face.elem[2] >= 0

\* C16 as claimed: when the scan reaches such a face the construction dies
\* there: no element is created for the face and the construction does not
\* complete.
C16_TwoSidedFaceAborts ==
  [][AtTwoSidedFace /\ ScanFace => pc' = "aborted" /\ elements' = elements]_vars

\* C16 amended: the assertion is an MFEM_ASSERT.  In a debug build the
\* construction dies at such a face and no element is created for it; in a
\* release build the element is created like that of any boundary face and
\* the construction goes on with the ascent.
C16_TwoSidedFaceAbortsInDebug ==
  [][AtTwoSidedFace /\ ScanFace =>
       IF debug
       THEN pc' = "aborted" /\ elements' = elements
       ELSE /\ pc' = "ascend"
            /\ Len(elements') = Len(elements) + 1
            /\ parent_element_ids_' = Append(parent_element_ids_, i)
            /\ elements'[Len(elements')].node = parent.faces[i + 1].nodes]_vars

\* A debug build has died at a two-sided face, after an element was created
\* for no face yet or for one-sided faces only.
C16_Witness ==
  /\ from = "Boundary" /\ debug /\ pc = "aborted"
  /\ ipe < FacesSize(parent)
  /\ parent.faces[i + 1].elem[1] >= 0 /\ parent.faces[i + 1].elem[2] >= 0
  /\ HasAttribute(parent.faces[i + 1], attributes)
  /\ elements = <<>>

\* The reordering loop never reads the coordinates of the parent mesh, so
\* the meshes are taken with their coordinates only.
InitLive == Init /\ parent.coordinates # <<>>

\* The constructor is sequential code: at the loop test of the reordering
\* loop it either runs the body once more or leaves the loop.
SpecLive == InitLive /\ [][Next]_vars /\ WF_vars(SortElements) /\ WF_vars(SortDone)

\* C17: the reordering loop of the Boundary mode terminates: from every
\* state in which the constructor is at the loop test it reaches the code
\* behind the loop.
C17_SortTerminates == (pc = "sort") ~> (pc = "relabel")

\* The loop has been left with a forest of three levels, whose elements the
\* scan had created children first.
C17_Witness ==
  /\ from = "Boundary" /\ pc = "relabel"
  /\ \E k \in DOMAIN elements :
       /\ elements[k].parent >= 0
       /\ El(elements, elements[k].parent).parent >= 0

\* The state in which the reordering loop has just been left.
LoopExit == from = "Boundary" /\ pc = "relabel"

\* Element e (counted from 0) sits in a child slot of its parent.
InParentSlot(e) ==
  \E c \in 0..3 : ChildAt(El(elements, El(elements, e).parent), c) = e

\* C18: when the reordering loop is left the links agree in both
\* directions: an element with a parent sits in a child slot of that parent,
\* and every wired child slot of an internal element names an element whose
\* parent is that element.
C18_LinksConsistent ==
  LoopExit =>
    \A e \in 0..(Len(elements) - 1) :
      /\ El(elements, e).parent >= 0 => InParentSlot(e)
      /\ ~IsLeaf(El(elements, e)) =>
           \A c \in 0..3 :
             ChildAt(El(elements, e), c) >= 0 =>
               /\ ChildAt(El(elements, e), c) < Len(elements)
               /\ El(elements, ChildAt(El(elements, e), c)).parent = e

\* The elements named by the wired child slots of element e.
WiredChildren(e) ==
  {ChildAt(El(elements, e), c) : c \in 0..3} \cap 0..(Len(elements) - 1)

\* C19: when the reordering loop is left the rank of every internal
\* element is the minimum of the ranks of its wired children.
C19_RankIsMinOfChildren ==
  LoopExit =>
    \A e \in 0..(Len(elements) - 1) :
      ~IsLeaf(El(elements, e)) =>
        /\ WiredChildren(e) # {}
        /\ El(elements, e).rank =
             SetMin({El(elements, c).rank : c \in WiredChildren(e)})

\* The next-coarser face of the face the ascent stands on.
AscentUp == ParentFaceNodes(parent.nodes, fn)

\* The ascent stands below a coarser face that has an element already and
\* whose stored node order differs from the one just computed.
AtMismatch ==
  /\ from = "Boundary" /\ pc = "ascend"
  /\ AscentUp.child # -1
  /\ FaceKey(AscentUp.nodes) \in DOMAIN pnodes_new_elem
  /\ pnodes_new_elem[FaceKey(AscentUp.nodes)].key # AscentUp.nodes

\* The map entry of the coarser face is re-keyed and the ascent goes on
\* from its element.
ReKeyed ==
  /\ pnodes_new_elem'[FaceKey(AscentUp.nodes)] =
       [key |-> AscentUp.nodes, elem |-> pnodes_new_elem[FaceKey(AscentUp.nodes)].elem]
  /\ new_elem_id' = pnodes_new_elem[FaceKey(AscentUp.nodes)].elem
  /\ pc' = "ascend"

\* The first operand of the test of lines 299..300 for the face of slot i.
RepairAllowed ==
  LET face == parent.faces[i + 1]
      elem == El(parent.elements, IF face.elem[1] >= 0 THEN face.elem[1] ELSE face.elem[2])
  IN \/ (elem.geom = "TRIANGLE" /\ AscentUp.child # 3)
     \/ face.type # "UNRECOGNIZED"

\* C20: during the ascent, whenever the coarser face has an element already
\* and its stored node order differs from the one just computed, the entry
\* is re-keyed to the new order and the ascent continues from that element,
\* whatever the adjacent geometry, the child position and the face type.
C20_MismatchReKeys == [][AtMismatch /\ Ascend => ReKeyed]_vars

\* C20, amended: the repair is made when the adjacent element is a triangle
\* and the face is not its child 3, or when the face type is recognised;
\* otherwise the entry keeps its key, the new element is wired into the
\* child slot computed from the new order and the ascent stops.
C20_MismatchReKeysIfAllowed ==
  [][AtMismatch /\ Ascend =>
       IF RepairAllowed THEN ReKeyed
       ELSE /\ pnodes_new_elem' = pnodes_new_elem
            /\ pc' = "scan"
            /\ ChildAt(El(elements', pnodes_new_elem[FaceKey(AscentUp.nodes)].elem),
                       AscentUp.child) = new_elem_id
            /\ El(elements', new_elem_id).parent =
                 pnodes_new_elem[FaceKey(AscentUp.nodes)].elem]_vars

\* A mismatch has been repaired: the ascent goes on from an element that
\* had a child before this step wired another one, under the new key.
C20_Witness ==
  /\ from = "Boundary" /\ pc = "ascend"
  /\ FaceKey(fn) \in DOMAIN pnodes_new_elem
  /\ pnodes_new_elem[FaceKey(fn)] = [key |-> fn, elem |-> new_elem_id]
  /\ Cardinality({c \in 0..3 : ChildAt(El(elements, new_elem_id), c) >= 0}) >= 2
  /\ ~IsLeaf(El(elements, new_elem_id))

\* ----------------------------------------- the orientation fix alone
\* The branch of lines 303..331 on one internal element: the stored key is
\* the node order of a quadrilateral or of a triangle, fn any reordering of
\* it, and the child slots hold -1 or ids up to MaxChildId.
MaxChildId == 2

StoredOrders == {<<0, 1, 2, 3>>, <<0, 1, 2, -1>>}

Reorderings(t) ==
  {u \in [1..4 -> {t[k] : k \in 1..4}] :
     /\ \A k \in 1..4 : \E n \in 1..4 : u[n] = t[k]
     /\ t[4] = -1 => u[4] = -1}

InitFix ==
  /\ pc = "fix"
  /\ from = "Boundary"
  /\ debug = FALSE
  /\ parent = [nodes |-> <<>>, elements |-> <<>>, faces |-> <<>>, coordinates |-> <<>>]
  /\ \E stored \in StoredOrders : \E ch \in [1..4 -> (-1)..MaxChildId] :
       /\ fn \in Reorderings(stored) \ {stored}
       /\ pnodes_new_elem = (FaceKey(stored) :> [key |-> stored, elem |-> 0])
       /\ elements = <<[NewElement(face_geom_from_nodes(stored), 1) EXCEPT
                          !.ref_type = RefXY, !.node = ch]>>
  /\ nodes = <<>>
  /\ parent_element_ids_ = <<-1>>
  /\ parent_to_submesh_element_ids_ = <<>>
  /\ parent_node_ids_ = <<>>
  /\ parent_to_submesh_node_ids_ = <<>>
  /\ node_ids = [counter |-> 0, idx |-> <<>>]
  /\ get_log = <<>>
  /\ new_nodes = {}
  /\ new_elem_to_parent_face_nodes = <<>>
  /\ i = 0
  /\ ipe = 0
  /\ new_elem_id = 1
  /\ root_state_size = 0
  /\ contrib = <<>>
  /\ p = <<0, 0>>
  /\ leaf_elements = <<>>
  /\ coordinates = [size |-> 0, at |-> <<>>]
  /\ submesh = <<>>

\* The else branch of line 312 followed by the re-keying of the map.
FixParent ==
  /\ pc = "fix"
  /\ \E stored \in {pnodes_new_elem[FaceKey(fn)].key} :
       \E g \in [Unwritten(fn, stored) -> Indeterminate] :
         /\ elements' = [elements EXCEPT ![1].node = PermuteChildren(fn, stored, @, g)]
         /\ pnodes_new_elem' = MapPut(pnodes_new_elem, FaceKey(fn), [key |-> fn, elem |-> 0])
  /\ pc' = "fixed"
  /\ UNCHANGED <<meshVars, scanVars, nodeVars, tailVars, subVars, new_nodes,
                 parent_element_ids_, parent_to_submesh_element_ids_,
                 new_elem_to_parent_face_nodes>>

SpecFix == InitFix /\ [][FixParent]_vars

\* C21: the fix moves the children with the nodes: for every node v of the
\* face, the child that sat in the slot at v's position in the stored order
\* sits in the slot at v's position in the new order.
C21_ChildrenFollowNodes ==
  [][FixParent =>
       \A v \in {fn[k] : k \in 1..4} \ {-1} :
         elements'[1].node[FirstIndex(fn, v)] =
           elements[1].node[FirstIndex(pnodes_new_elem[FaceKey(fn)].key, v)]]_vars

\* The face scan of the Boundary mode alone, lines 201..345.  The code is
\* sequential: inside the ascent loop the next iteration is run.
NextScan == ScanFace \/ Ascend \/ ScanDone

\* The scan reads parent.nodes, parent.elements and parent.faces and never
\* the coordinates, so the meshes are taken with their coordinates only.
InitScan == InitBoundary /\ parent.coordinates # <<>>

SpecScan == InitScan /\ [][NextScan]_vars /\ WF_vars(Ascend)

\* The coarser face of the ascent has an element already.
AscentJoins == AscentUp.child # -1 /\ FaceKey(AscentUp.nodes) \in DOMAIN pnodes_new_elem

\* C22: the ascent of every selected face terminates; it ends either at a
\* face without coarser face, whose element gets parent -1, or with the
\* element wired into an element that existed and was not re-oriented; it
\* goes on exactly when the coarser element was created or re-oriented in
\* this step.
C22_AscentEnds ==
  /\ []<>(pc # "ascend")
  /\ [][Ascend =>
         LET key == FaceKey(AscentUp.nodes)
             pe == pnodes_new_elem[key].elem
         IN /\ pc' \in {"ascend", "scan"}
            /\ pc' = "ascend" <=>
                 /\ AscentUp.child # -1
                 /\ \/ ~AscentJoins
                    \/ pnodes_new_elem'[key].key # pnodes_new_elem[key].key
            /\ pc' = "scan" =>
                 \/ /\ AscentUp.child = -1
                    /\ El(elements', new_elem_id).parent = -1
                 \/ /\ AscentJoins
                    /\ pnodes_new_elem' = pnodes_new_elem
                    /\ El(elements', new_elem_id).parent = pe
                    /\ ChildAt(El(elements', pe), AscentUp.child) = new_elem_id
                    /\ \A c \in (0..3) \ {AscentUp.child} :
                         ChildAt(El(elements', pe), c) = ChildAt(El(elements, pe), c)]_vars

\* Both endings have happened: an element without parent, and an element
\* that joined a coarser element created before it.
C22_Witness ==
  /\ from = "Boundary" /\ pc = "scan"
  /\ \E k \in DOMAIN elements : elements[k].parent = -1
  /\ \E k \in DOMAIN elements : elements[k].parent >= 0 /\ elements[k].parent < k - 1

\* The domain pass is over.
DomainPassed == from = "Domain" /\ pc = "reparent"

\* C23: after the domain pass every child slot of a copied internal element
\* holds the submesh id of the copy of the parent-mesh child, that copy
\* has the element as parent, and the map has no key but the copied parent
\* elements.
C23_DomainChildrenRemapped ==
  DomainPassed =>
    /\ DOMAIN parent_to_submesh_element_ids_ =
         {parent_element_ids_[k] : k \in DOMAIN parent_element_ids_}
    /\ \A e \in 0..(Len(elements) - 1) :
         ~IsLeaf(El(elements, e)) =>
           \A c \in 0..(ref_type_num_children[El(elements, e).ref_type] - 1) :
             LET pchild == ChildAt(El(parent.elements, parent_element_ids_[e + 1]), c)
                 copy == ChildAt(El(elements, e), c)
             IN /\ copy \in 0..(Len(elements) - 1)
                /\ parent_element_ids_[copy + 1] = pchild
                /\ El(elements, copy).parent = e

\* The parent ids of the retained nodes.
RetainedNodes == {parent_node_ids_[k] : k \in DOMAIN parent_node_ids_}

\* C24: the reparenting loop finds both midpoint parents of every retained
\* node among the keys of parent_to_submesh_node_ids_: it adds no key, and
\* afterwards the keys are exactly the values of parent_node_ids_.
C24_ReparentAddsNoKey ==
  [][Reparent /\ pc' # "aborted" =>
       /\ \A n \in RetainedNodes :
            n \in DOMAIN parent.nodes =>
              {parent.nodes[n].p1, parent.nodes[n].p2} \subseteq DOMAIN parent_to_submesh_node_ids_
       /\ DOMAIN parent_to_submesh_node_ids_' = DOMAIN parent_to_submesh_node_ids_
       /\ DOMAIN parent_to_submesh_node_ids_' = RetainedNodes]_vars

\* The boundary scan is over and the nodes are about to be registered.
ScanEnded == from = "Boundary" /\ pc = "register"

\* C25: at the end of the boundary scan the nodes and the edge nodes of
\* every face that has a submesh element, the coarser faces of the ascent
\* included, are in the set that is registered next.
C25_AllFaceNodesCollected ==
  ScanEnded =>
    \A key \in DOMAIN pnodes_new_elem :
      FaceNewNodes(parent, pnodes_new_elem[key].key) \subseteq new_nodes

\* ------------------------------------------ face_geom_from_nodes alone
\* The lambda of lines 169..174 on every tuple of four entries between -1
\* and MaxNode.
MaxNode == 2

InitGeom ==
  /\ pc = "geom"
  /\ from = "Boundary"
  /\ debug = FALSE
  /\ parent = [nodes |-> <<>>, elements |-> <<>>, faces |-> <<>>, coordinates |-> <<>>]
  /\ fn \in [1..4 -> (-1)..MaxNode]
  /\ elements = <<>>
  /\ pnodes_new_elem = <<>>
  /\ nodes = <<>>
  /\ parent_element_ids_ = <<>>
  /\ parent_to_submesh_element_ids_ = <<>>
  /\ parent_node_ids_ = <<>>
  /\ parent_to_submesh_node_ids_ = <<>>
  /\ node_ids = [counter |-> 0, idx |-> <<>>]
  /\ get_log = <<>>
  /\ new_nodes = {}
  /\ new_elem_to_parent_face_nodes = <<>>
  /\ i = 0
  /\ ipe = 0
  /\ new_elem_id = -1
  /\ root_state_size = 0
  /\ contrib = <<>>
  /\ p = <<0, 0>>
  /\ leaf_elements = <<>>
  /\ coordinates = [size |-> 0, at |-> <<>>]
  /\ submesh = <<>>

\* AddElement(NCMesh::Element(face_geom_from_nodes(fn.nodes), attribute)).
Classify ==
  /\ pc = "geom"
  /\ elements' = <<NewElement(face_geom_from_nodes(fn), 1)>>
  /\ new_elem_id' = 0
  /\ pc' = "classified"
  /\ UNCHANGED <<meshVars, i, ipe, fn, nodeVars, tailVars, subVars, new_nodes,
                 pnodes_new_elem, parent_element_ids_, parent_to_submesh_element_ids_,
                 new_elem_to_parent_face_nodes>>

SpecGeom == InitGeom /\ [][Classify]_vars

\* C26: a tuple is a SEGMENT if its entries 0, 1 and its entries 2, 3 are
\* equal, otherwise a TRIANGLE if entry 3 is -1, otherwise a SQUARE: the
\* segment test comes first on every tuple.
C26_SegmentTestFirst ==
  pc = "classified" =>
    elements[1].geom =
      IF fn[1] = fn[2] /\ fn[3] = fn[4] THEN "SEGMENT"
      ELSE IF fn[4] = -1 THEN "TRIANGLE"
      ELSE "SQUARE"

\* C26, amended: a tuple is a TRIANGLE if entry 3 is -1, otherwise a
\* SEGMENT if its entries 0, 1 and its entries 2, 3 are equal, otherwise a
\* SQUARE: the triangle test comes first, so (a, a, -1, -1) is a TRIANGLE.
C26_TriangleTestFirst ==
  pc = "classified" =>
    elements[1].geom =
      IF fn[4] = -1 THEN "TRIANGLE"
      ELSE IF fn[1] = fn[2] /\ fn[3] = fn[4] THEN "SEGMENT"
      ELSE "SQUARE"

\* A tuple on which the two orders of the tests differ has been classified.
C26_Witness ==
  /\ pc = "classified"
  /\ fn[1] = fn[2] /\ fn[3] = -1 /\ fn[4] = -1
  /\ elements[1].geom = "TRIANGLE"

\* C27: a pass of the reordering loop moves the elements and the entries
\* of parent_element_ids_ by one and the same permutation; geometry,
\* attribute and refinement type of every element, and node array and rank
\* of every leaf, move with it unchanged, and nothing outside positions,
\* parent and child indices, internal ranks and the inverse map changes.
C27_PassPermutesConsistently ==
  [][SortElements =>
       LET o2n == old_to_new(elements, new_elem_to_parent_face_nodes)
           n == Len(elements)
       IN /\ Len(elements') = n
          /\ Len(parent_element_ids_') = Len(parent_element_ids_)
          /\ {o2n[x] : x \in 0..(n - 1)} = 0..(n - 1)
          /\ \A x \in 0..(n - 1) :
               /\ parent_element_ids_'[o2n[x] + 1] = parent_element_ids_[x + 1]
               /\ El(elements', o2n[x]).geom = El(elements, x).geom
               /\ El(elements', o2n[x]).attribute = El(elements, x).attribute
               /\ El(elements', o2n[x]).ref_type = El(elements, x).ref_type
               /\ IsLeaf(El(elements, x)) =>
                    /\ El(elements', o2n[x]).node = El(elements, x).node
                    /\ El(elements', o2n[x]).rank = El(elements, x).rank
          /\ UNCHANGED <<pc, meshVars, scanVars, nodeVars, tailVars, subVars,
                         new_nodes, pnodes_new_elem>>]_vars

\* A pass has run: the rebuilt inverse map points at a synthesized element,
\* which the scan never enters into that map.
C27_Witness ==
  /\ from = "Boundary" /\ pc = "sort"
  /\ \E k \in DOMAIN elements :
       /\ ~IsLeaf(elements[k])
       /\ parent_element_ids_[k] # -1
       /\ parent_element_ids_[k] \in DOMAIN parent_to_submesh_element_ids_
       /\ parent_to_submesh_element_ids_[parent_element_ids_[k]] = k - 1

\* C28: when the reordering loop is left, every element that has a parent
\* stands behind it: its parent index is strictly smaller than its own.
C28_ParentsPrecedeChildren ==
  LoopExit =>
    \A k \in DOMAIN elements :
      elements[k].parent >= 0 => elements[k].parent < k - 1

\* The loop is left with a chain of three generations in the array.
C28_Witness ==
  /\ LoopExit
  /\ \E k \in DOMAIN elements :
       /\ elements[k].parent >= 0
       /\ El(elements, elements[k].parent).parent >= 0

\* The child slots, over all internal elements, that name element e.
SlotsNaming(e) ==
  {s \in (0..(Len(elements) - 1)) \X (0..3) :
     ~IsLeaf(El(elements, s[1])) /\ ChildAt(El(elements, s[1]), s[2]) = e}

\* C29: when the boundary scan has ended, no element id stands in more
\* than one child slot, and an element with a parent stands in exactly one
\* slot of that parent; degenerate segment tuples (a, a, b, b) included.
C29_EachChildWiredOnce ==
  ScanEnded =>
    \A e \in 0..(Len(elements) - 1) :
      /\ Cardinality(SlotsNaming(e)) <= 1
      /\ El(elements, e).parent >= 0 =>
           /\ SlotsNaming(e) \subseteq {El(elements, e).parent} \X (0..3)
           /\ Cardinality(SlotsNaming(e)) = 1

\* The scan created an element that is not a root.
NonRootCreated == \E k \in DOMAIN elements : elements[k].parent >= 0

\* The reordering loop is reached.
LoopEntry == from = "Boundary" /\ pc # "sort" /\ pc' = "sort"

\* The inverse map has an entry for every synthesized element that has a
\* parent face id.
SynthesizedMapped ==
  \A k \in DOMAIN elements :
    (~IsLeaf(elements[k]) /\ parent_element_ids_[k] # -1) =>
      parent_element_ids_[k] \in DOMAIN parent_to_submesh_element_ids_

====
